---- MODULE Spec2Model ----
(***************************************************************************)
(* A model of the TFI-to-JavaScript compiler: the AST (ast.rs), the scope  *)
(* aware validator (validator.rs), the generator (generator.rs) and the    *)
(* compile pipeline (compiler.rs, parser.rs).                              *)
(*                                                                         *)
(* Text (identifier names, string literals, operator spellings, generated  *)
(* JavaScript) is a sequence of one-character strings, so that text can be *)
(* concatenated, trimmed and searched character by character.              *)
(***************************************************************************)
EXTENDS Integers, Sequences, FiniteSets, TLC

VARIABLES
    \* ---- a ValidationContext and the last call made on it
    context,        \* the ValidationContext (of the test, or of the validation loop)
    last_call,      \* the last call that was handed the context: its arguments, the
                    \* context before it, its result
    calls,          \* every declare_variable call made so far, with its result
    \* ---- validate_program / validate_program_detailed
    statements,     \* the program handed to the validator
    fn,             \* the validator entry point that is running ("idle" when none)
    index,          \* number of top-level statements the running loop has consumed
    errors,         \* validate_program_detailed's error vector
    vp_result,      \* what validate_program returned
    vpd_result,     \* what validate_program_detailed returned
    \* ---- generate_expression
    gen_input,      \* the expression handed to the generator
    gen_output,     \* the text generate_expression returned (None before the call)
    \* ---- compile / compile_with_details
    source,         \* what the grammar makes of the source text
    entry,          \* the function called: "compile" or "compile_with_details"
    pc,             \* the step of compile_with_details about to run
    ast,            \* the parsed program
    stages,         \* the stages run so far, in order
    js_code,        \* the generated text (None until generate_program has run)
    returned,       \* the value the call returned (NoResult before it returns)
    \* ---- single calls of the other public functions
    parse_input,    \* the expression pair handed to parse_expression
    parse_output,   \* what parse_expression returned (NoResult before the call)
    gen_stmts,      \* the statements handed to generate_program / generate_statement
    gen_stmt_code,  \* the text generate_statement returned for the first of them
    gen_code,       \* the text generate_program returned (None before the call)
    options,        \* the CompilationOptions handed to compile_with_options
    opt_result,     \* what compile_with_options returned (NoResult before the call)
    stats,          \* what get_compilation_stats returned (NoResult before the call)
    \* ---- a Lexer and the last call made on it
    lexer,          \* the Lexer: its tokens and its position
    lexer_call      \* the last method called on it: the Lexer before, what it returned

contextVars == <<context, last_call, calls>>
validateVars == <<statements, fn, index, errors, vp_result, vpd_result>>
generateVars == <<gen_input, gen_output>>
compileVars == <<source, entry, pc, ast, stages, js_code, returned>>
callVars ==
    <<parse_input, parse_output, gen_stmts, gen_stmt_code, gen_code, options, opt_result, stats>>

lexerVars == <<lexer, lexer_call>>

vars == <<contextVars, validateVars, generateVars, compileVars, callVars, lexerVars>>

-----------------------------------------------------------------------------
(* Bounds of the model *)

\* declare_variable calls made on one ValidationContext
MaxCalls == 3
\* statement ordinals handed to declare_variable
MaxLine == 2
\* top-level statements of a program
MaxStmts == 2
MaxOps == 2
MaxTerms == 3
\* tokens of a Lexer
MaxTokens == 4

-----------------------------------------------------------------------------
(* ast.rs: Expression and Statement *)

Number(n) == [type |-> "Number", n |-> n]
Identifier(name) == [type |-> "Identifier", name |-> name]
StringLit(s) == [type |-> "String", s |-> s]
BinaryOp(left, op, right) == [type |-> "BinaryOp", left |-> left, op |-> op, right |-> right]

PrintStmt(expressions) == [type |-> "Print", expressions |-> expressions]
Const(name, expr) == [type |-> "Const", name |-> name, expr |-> expr]
Let(name, expr) == [type |-> "Let", name |-> name, expr |-> expr]
\* Option<Vec<Statement>>: None is <<>>, Some(block) is <<block>>
None == << >>
Some(v) == << v >>
If(cond, then_block, else_block) == [type |-> "If", cond |-> cond, then_block |-> then_block, else_block |-> else_block]
While(cond, block) == [type |-> "While", cond |-> cond, block |-> block]
For(init, cond, update, block) == [type |-> "For", init |-> init, cond |-> cond, update |-> update, block |-> block]

-----------------------------------------------------------------------------
(* validator.rs: errors, results, ValidationContext *)

EmptyPrintStatement(line) == [kind |-> "EmptyPrintStatement", line |-> line]
EmptyIdentifier(line, stmt_type) == [kind |-> "EmptyIdentifier", line |-> line, stmt_type |-> stmt_type]
EmptyBlock(line, stmt_type) == [kind |-> "EmptyBlock", line |-> line, stmt_type |-> stmt_type]
InvalidExpression(line, op) == [kind |-> "InvalidExpression", line |-> line, msg |-> <<"Unknown operator: ", op>>]
DuplicateVariable(name, line) == [kind |-> "DuplicateVariable", name |-> name, line |-> line]
UndefinedVariable(name, line) == [kind |-> "UndefinedVariable", name |-> name, line |-> line]

Ok == [ok |-> TRUE]
Err(e) == [ok |-> FALSE, err |-> e]

DeclarationType == {"Const", "Let"}

\* ValidationContext::new
NewContext == [declared_vars |-> {}, var_declarations |-> << >>, var_types |-> << >>]

\* HashMap::insert
insert(map, key, value) == [k \in DOMAIN map \cup {key} |-> IF k = key THEN value ELSE map[k]]

\* HashMap::get(..).unwrap_or(default)
get_or(map, key, default) == IF key \in DOMAIN map THEN map[key] ELSE default

\* The mutant of declare_variable: the shadowing test reads the kinds the wrong
\* way round (a let may be re-declared as const).
declare_variable_swapped(ctx, name, line, decl_type) ==
    IF name \in ctx.declared_vars
    THEN LET original_line == get_or(ctx.var_declarations, name, 0)
             original_type == get_or(ctx.var_types, name, "Let")
         IN  IF original_type = "Let" /\ decl_type = "Const"
             THEN [context |-> [ctx EXCEPT !.var_declarations = insert(@, name, line),
                                           !.var_types = insert(@, name, decl_type)],
                   result |-> Ok]
             ELSE [context |-> ctx, result |-> Err(DuplicateVariable(name, original_line))]
    ELSE [context |-> [declared_vars |-> ctx.declared_vars \cup {name},
                       var_declarations |-> insert(ctx.var_declarations, name, line),
                       var_types |-> insert(ctx.var_types, name, decl_type)],
          result |-> Ok]
\* The mutant of declare_variable: the error carries the ordinal of the
\* rejected declaration.
declare_variable_rejected_line(ctx, name, line, decl_type) ==
    IF name \in ctx.declared_vars
    THEN LET original_type == get_or(ctx.var_types, name, "Let")
         IN  IF original_type = "Const" /\ decl_type = "Let"
             THEN [context |-> [ctx EXCEPT !.var_declarations = insert(@, name, line),
                                           !.var_types = insert(@, name, decl_type)],
                   result |-> Ok]
             ELSE [context |-> ctx, result |-> Err(DuplicateVariable(name, line))]
    ELSE [context |-> [declared_vars |-> ctx.declared_vars \cup {name},
                       var_declarations |-> insert(ctx.var_declarations, name, line),
                       var_types |-> insert(ctx.var_types, name, decl_type)],
          result |-> Ok]
\* The mutant of declare_variable: the rejected declaration is recorded all the
\* same.
declare_variable_recording(ctx, name, line, decl_type) ==
    IF name \in ctx.declared_vars
    THEN LET original_line == get_or(ctx.var_declarations, name, 0)
             original_type == get_or(ctx.var_types, name, "Let")
         IN  IF original_type = "Const" /\ decl_type = "Let"
             THEN [context |-> [ctx EXCEPT !.var_declarations = insert(@, name, line),
                                           !.var_types = insert(@, name, decl_type)],
                   result |-> Ok]
             ELSE [context |-> [ctx EXCEPT !.var_declarations = insert(@, name, line),
                                           !.var_types = insert(@, name, decl_type)],
                   result |-> Err(DuplicateVariable(name, original_line))]
    ELSE [context |-> [declared_vars |-> ctx.declared_vars \cup {name},
                       var_declarations |-> insert(ctx.var_declarations, name, line),
                       var_types |-> insert(ctx.var_types, name, decl_type)],
          result |-> Ok]
\* The mutant of declare_variable: a let may redeclare a name of either kind.
declare_variable_rebinding(ctx, name, line, decl_type) ==
    IF name \in ctx.declared_vars
    THEN LET original_line == get_or(ctx.var_declarations, name, 0)
         IN  IF decl_type = "Let"
             THEN [context |-> [ctx EXCEPT !.var_declarations = insert(@, name, line),
                                           !.var_types = insert(@, name, decl_type)],
                   result |-> Ok]
             ELSE [context |-> ctx, result |-> Err(DuplicateVariable(name, original_line))]
    ELSE [context |-> [declared_vars |-> ctx.declared_vars \cup {name},
                       var_declarations |-> insert(ctx.var_declarations, name, line),
                       var_types |-> insert(ctx.var_types, name, decl_type)],
          result |-> Ok]

\* ValidationContext::declare_variable: the context after the call and its result
declare_variable(ctx, name, line, decl_type) ==
    IF name \in ctx.declared_vars
    THEN LET original_line == get_or(ctx.var_declarations, name, 0)
             original_type == get_or(ctx.var_types, name, "Let")
         IN  IF original_type = "Const" /\ decl_type = "Let"
             THEN [context |-> [ctx EXCEPT !.var_declarations = insert(@, name, line),
                                           !.var_types = insert(@, name, decl_type)],
                   result |-> Ok]
             ELSE [context |-> ctx, result |-> Err(DuplicateVariable(name, original_line))]
    ELSE [context |-> [declared_vars |-> ctx.declared_vars \cup {name},
                       var_declarations |-> insert(ctx.var_declarations, name, line),
                       var_types |-> insert(ctx.var_types, name, decl_type)],
          result |-> Ok]

\* ValidationContext::is_variable_declared
is_variable_declared(ctx, name) == name \in ctx.declared_vars

-----------------------------------------------------------------------------
(* validator.rs: validate_expression, validate_statement *)

\* The operator spellings validate_expression accepts
ValidOperators ==
    { <<"+">>, <<"-">>, <<"*">>, <<"/">>, <<">">>, <<"<">>,
      <<">", "=">>, <<"<", "=">>, <<"=", "=">>, <<"!", "=">> }

RECURSIVE validate_expression(_, _, _)

\* The mutant of validate_expression: the right operand is not validated.
validate_expression_left_only(expr, line, ctx) ==
    CASE expr.type = "Number" -> Ok
      [] expr.type = "String" -> Ok
      [] expr.type = "Identifier" ->
            IF ~is_variable_declared(ctx, expr.name)
            THEN Err(UndefinedVariable(expr.name, line))
            ELSE Ok
      [] expr.type = "BinaryOp" ->
            LET l == validate_expression(expr.left, line, ctx)
            IN  IF ~l.ok THEN l
                ELSE IF expr.op \in ValidOperators THEN Ok
                ELSE Err(InvalidExpression(line, expr.op))

validate_expression(expr, line, ctx) ==
    CASE expr.type = "Number" -> Ok
      [] expr.type = "String" -> Ok
      [] expr.type = "Identifier" ->
            IF ~is_variable_declared(ctx, expr.name)
            THEN Err(UndefinedVariable(expr.name, line))
            ELSE Ok
      [] expr.type = "BinaryOp" ->
            LET l == validate_expression(expr.left, line, ctx)
            IN  IF ~l.ok THEN l
                ELSE LET r == validate_expression(expr.right, line, ctx)
                     IN  IF ~r.ok THEN r
                         ELSE IF expr.op \in ValidOperators THEN Ok
                         ELSE Err(InvalidExpression(line, expr.op))

\* `for expr in expressions { validate_expression(expr, line, context)?; }`
RECURSIVE validate_expressions(_, _, _)
validate_expressions(expressions, line, ctx) ==
    IF expressions = << >> THEN Ok
    ELSE LET r == validate_expression(Head(expressions), line, ctx)
         IN  IF ~r.ok THEN r ELSE validate_expressions(Tail(expressions), line, ctx)

\* The scope of a nested block: a new context extended with the enclosing one
new_scope(ctx) ==
    [declared_vars |-> NewContext.declared_vars \cup ctx.declared_vars,
     var_declarations |-> [k \in DOMAIN NewContext.var_declarations \cup DOMAIN ctx.var_declarations |-> ctx.var_declarations[k]],
     var_types |-> [k \in DOMAIN NewContext.var_types \cup DOMAIN ctx.var_types |-> ctx.var_types[k]]]

RECURSIVE validate_statement(_, _, _)

\* `for stmt in block { validate_statement(stmt, line, &mut block_context)?; }`
RECURSIVE validate_block(_, _, _)

\* The mutant of the block loop: the statements of a block are numbered on
\* from the ordinal of the statement that holds the block.
validate_block_numbered_on(block, line, ctx) ==
    IF block = << >> THEN [context |-> ctx, result |-> Ok]
    ELSE LET r == validate_statement(Head(block), line + 1, ctx)
         IN  IF ~r.result.ok THEN r ELSE validate_block(Tail(block), line + 1, r.context)

validate_block(block, line, ctx) ==
    IF block = << >> THEN [context |-> ctx, result |-> Ok]
    ELSE LET r == validate_statement(Head(block), line, ctx)
         IN  IF ~r.result.ok THEN r ELSE validate_block(Tail(block), line, r.context)

\* The mutant of the Print arm: the emptiness test is missing.
validate_statement_Print_unchecked(stmt, line, ctx) ==
    [context |-> ctx, result |-> validate_expressions(stmt.expressions, line, ctx)]

\* Statement::Print
validate_statement_Print(stmt, line, ctx) ==
    IF stmt.expressions = << >>
    THEN [context |-> ctx, result |-> Err(EmptyPrintStatement(line))]
    ELSE [context |-> ctx, result |-> validate_expressions(stmt.expressions, line, ctx)]
\* The mutant of the Const/Let arm: the initializer is validated before the
\* name is declared.
validate_statement_Decl_initializer_first(stmt, line, ctx) ==
    IF stmt.name = << >>
    THEN [context |-> ctx,
          result |-> Err(EmptyIdentifier(line, IF stmt.type = "Const" THEN "rrr" ELSE "pushpa"))]
    ELSE LET e == validate_expression(stmt.expr, line, ctx)
         IN  IF ~e.ok THEN [context |-> ctx, result |-> e]
             ELSE declare_variable(ctx, stmt.name, line, stmt.type)

\* Statement::Const and Statement::Let
validate_statement_Decl(stmt, line, ctx) ==
    IF stmt.name = << >>
    THEN [context |-> ctx,
          result |-> Err(EmptyIdentifier(line, IF stmt.type = "Const" THEN "rrr" ELSE "pushpa"))]
    ELSE LET d == declare_variable(ctx, stmt.name, line, stmt.type)
         IN  IF ~d.result.ok THEN d
             ELSE [context |-> d.context, result |-> validate_expression(stmt.expr, line, d.context)]

\* The mutant of the If arm: the else-block is validated in the scope the
\* then-block left, not in a copy of the enclosing one.
validate_statement_If_chained(stmt, line, ctx) ==
    LET c == validate_expression(stmt.cond, line, ctx)
    IN  IF ~c.ok THEN [context |-> ctx, result |-> c]
        ELSE IF stmt.then_block = << >>
        THEN [context |-> ctx, result |-> Err(EmptyBlock(line, "magadheera"))]
        ELSE LET t == validate_block(stmt.then_block, line, new_scope(ctx))
             IN  IF ~t.result.ok THEN [context |-> ctx, result |-> t.result]
                 ELSE IF stmt.else_block = None THEN [context |-> ctx, result |-> Ok]
                 ELSE LET else_block == stmt.else_block[1]
                      IN  IF else_block = << >>
                          THEN [context |-> ctx, result |-> Err(EmptyBlock(line, "karthikeya"))]
                          ELSE [context |-> ctx,
                                result |-> validate_block(else_block, line, new_scope(t.context)).result]

\* Statement::If
validate_statement_If(stmt, line, ctx) ==
    LET c == validate_expression(stmt.cond, line, ctx)
    IN  IF ~c.ok THEN [context |-> ctx, result |-> c]
        ELSE IF stmt.then_block = << >>
        THEN [context |-> ctx, result |-> Err(EmptyBlock(line, "magadheera"))]
        ELSE LET t == validate_block(stmt.then_block, line, new_scope(ctx))
             IN  IF ~t.result.ok THEN [context |-> ctx, result |-> t.result]
                 ELSE IF stmt.else_block = None THEN [context |-> ctx, result |-> Ok]
                 ELSE LET else_block == stmt.else_block[1]
                      IN  IF else_block = << >>
                          THEN [context |-> ctx, result |-> Err(EmptyBlock(line, "karthikeya"))]
                          ELSE [context |-> ctx,
                                result |-> validate_block(else_block, line, new_scope(ctx)).result]

\* The mutant of the While arm: the body is validated in the enclosing context
\* itself, not in a copy.
validate_statement_While_shared(stmt, line, ctx) ==
    LET c == validate_expression(stmt.cond, line, ctx)
    IN  IF ~c.ok THEN [context |-> ctx, result |-> c]
        ELSE IF stmt.block = << >>
        THEN [context |-> ctx, result |-> Err(EmptyBlock(line, "pokiri"))]
        ELSE validate_block(stmt.block, line, ctx)

\* Statement::While
validate_statement_While(stmt, line, ctx) ==
    LET c == validate_expression(stmt.cond, line, ctx)
    IN  IF ~c.ok THEN [context |-> ctx, result |-> c]
        ELSE IF stmt.block = << >>
        THEN [context |-> ctx, result |-> Err(EmptyBlock(line, "pokiri"))]
        ELSE [context |-> ctx,
              result |-> validate_block(stmt.block, line, new_scope(ctx)).result]

\* The mutant of the For arm: the emptiness test of the body is missing.
validate_statement_For_unchecked(stmt, line, ctx) ==
    LET i == validate_statement(stmt.init, line, ctx)
    IN  IF ~i.result.ok THEN i
        ELSE LET c == validate_expression(stmt.cond, line, i.context)
             IN  IF ~c.ok THEN [context |-> i.context, result |-> c]
                 ELSE LET u == validate_expression(stmt.update, line, i.context)
                      IN  IF ~u.ok THEN [context |-> i.context, result |-> u]
                          ELSE [context |-> i.context,
                                result |-> validate_block(stmt.block, line, new_scope(i.context)).result]

\* The mutant of the For arm: the condition and the update are validated in
\* the context as it was before the init.
validate_statement_For_init_last(stmt, line, ctx) ==
    LET c == validate_expression(stmt.cond, line, ctx)
    IN  IF ~c.ok THEN [context |-> ctx, result |-> c]
        ELSE LET u == validate_expression(stmt.update, line, ctx)
             IN  IF ~u.ok THEN [context |-> ctx, result |-> u]
                 ELSE LET i == validate_statement(stmt.init, line, ctx)
                      IN  IF ~i.result.ok THEN i
                          ELSE IF stmt.block = << >>
                          THEN [context |-> i.context, result |-> Err(EmptyBlock(line, "eega"))]
                          ELSE [context |-> i.context,
                                result |-> validate_block(stmt.block, line, new_scope(i.context)).result]
\* The mutant of the For arm: the init is validated in a scope of its own, the
\* loop's, and its declaration does not reach the enclosing context.
validate_statement_For_scoped_init(stmt, line, ctx) ==
    LET i == validate_statement(stmt.init, line, new_scope(ctx))
    IN  IF ~i.result.ok THEN [context |-> ctx, result |-> i.result]
        ELSE LET c == validate_expression(stmt.cond, line, i.context)
             IN  IF ~c.ok THEN [context |-> ctx, result |-> c]
                 ELSE LET u == validate_expression(stmt.update, line, i.context)
                      IN  IF ~u.ok THEN [context |-> ctx, result |-> u]
                          ELSE IF stmt.block = << >>
                          THEN [context |-> ctx, result |-> Err(EmptyBlock(line, "eega"))]
                          ELSE [context |-> ctx,
                                result |-> validate_block(stmt.block, line, new_scope(i.context)).result]

\* Statement::For
validate_statement_For(stmt, line, ctx) ==
    LET i == validate_statement(stmt.init, line, ctx)
    IN  IF ~i.result.ok THEN i
        ELSE LET c == validate_expression(stmt.cond, line, i.context)
             IN  IF ~c.ok THEN [context |-> i.context, result |-> c]
                 ELSE LET u == validate_expression(stmt.update, line, i.context)
                      IN  IF ~u.ok THEN [context |-> i.context, result |-> u]
                          ELSE IF stmt.block = << >>
                          THEN [context |-> i.context, result |-> Err(EmptyBlock(line, "eega"))]
                          ELSE [context |-> i.context,
                                result |-> validate_block(stmt.block, line, new_scope(i.context)).result]

\* validate_statement: the context after the call and its result
validate_statement(stmt, line, ctx) ==
    CASE stmt.type = "Print" -> validate_statement_Print(stmt, line, ctx)
      [] stmt.type \in {"Const", "Let"} -> validate_statement_Decl(stmt, line, ctx)
      [] stmt.type = "If" -> validate_statement_If(stmt, line, ctx)
      [] stmt.type = "While" -> validate_statement_While(stmt, line, ctx)
      [] stmt.type = "For" -> validate_statement_For(stmt, line, ctx)


\* validate_program's loop from statement `from` on: the first error, or Ok
RECURSIVE validate_from(_, _, _)
validate_from(stmts, from, ctx) ==
    IF from > Len(stmts) THEN Ok
    ELSE LET r == validate_statement(stmts[from], from, ctx)
         IN  IF ~r.result.ok THEN r.result ELSE validate_from(stmts, from + 1, r.context)

\* validate_program, as one call
validate_program(stmts) == validate_from(stmts, 1, NewContext)

-----------------------------------------------------------------------------
(* generator.rs: generate_expression, generate_statement, generate_program *)

Digits == <<"0", "1", "2", "3", "4", "5", "6", "7", "8", "9">>

\* i32::to_string for a non-negative value
RECURSIVE to_string_nat(_)
to_string_nat(n) ==
    IF n < 10 THEN <<Digits[n + 1]>>
    ELSE to_string_nat(n \div 10) \o <<Digits[(n % 10) + 1]>>

\* i32::to_string
to_string(n) == IF n < 0 THEN <<"-">> \o to_string_nat(0 - n) ELSE to_string_nat(n)

\* [String]::join(sep)
RECURSIVE join(_, _)
join(parts, sep) ==
    IF parts = << >> THEN << >>
    ELSE IF Len(parts) = 1 THEN parts[1]
    ELSE parts[1] \o sep \o join(Tail(parts), sep)

\* str::trim_end_matches(ch)
RECURSIVE trim_end_matches(_, _)
trim_end_matches(text, ch) ==
    IF text # << >> /\ text[Len(text)] = ch
    THEN trim_end_matches(SubSeq(text, 1, Len(text) - 1), ch)
    ELSE text

RECURSIVE generate_expression(_)

\* The mutant of the BinaryOp arm: the operands and the operator, no parentheses.
generate_expression_bare(expr) ==
    CASE expr.type = "Number" -> to_string(expr.n)
      [] expr.type = "Identifier" -> expr.name
      [] expr.type = "String" -> <<"\"">> \o expr.s \o <<"\"">>
      [] expr.type = "BinaryOp" ->
            generate_expression(expr.left) \o <<" ">> \o expr.op \o <<" ">>
                \o generate_expression(expr.right)

generate_expression(expr) ==
    CASE expr.type = "Number" -> to_string(expr.n)
      [] expr.type = "Identifier" -> expr.name
      [] expr.type = "String" -> <<"\"">> \o expr.s \o <<"\"">>
      [] expr.type = "BinaryOp" ->
            <<"(">> \o generate_expression(expr.left) \o <<" ">> \o expr.op \o <<" ">>
                \o generate_expression(expr.right) \o <<")">>

\* expressions.iter().map(generate_expression).collect()
RECURSIVE generate_expressions(_)
generate_expressions(expressions) ==
    IF expressions = << >> THEN << >>
    ELSE <<generate_expression(Head(expressions))>> \o generate_expressions(Tail(expressions))

\* The literal pieces of the format strings
CommaSpace == <<",", " ">>
Newline == <<"\n">>
ConsoleLogOpen == <<"c", "o", "n", "s", "o", "l", "e", ".", "l", "o", "g", "(">>
CloseSemi == <<")", ";">>
ConstSpace == <<"c", "o", "n", "s", "t", " ">>
LetSpace == <<"l", "e", "t", " ">>
SpaceEqSpace == <<" ", "=", " ">>
Semi == <<";">>
IfOpen == <<"i", "f", " ", "(">>
WhileOpen == <<"w", "h", "i", "l", "e", " ", "(">>
ForOpen == <<"f", "o", "r", " ", "(">>
SemiSpace == <<";", " ">>
BlockOpen == <<")", " ", "{", "\n">>
BlockClose == <<"\n", "}">>
ElseOpen == <<" ", "e", "l", "s", "e", " ", "{", "\n">>

RECURSIVE generate_statement(_)

\* block.iter().map(generate_statement).collect()
RECURSIVE generate_statements(_)
generate_statements(block) ==
    IF block = << >> THEN << >>
    ELSE <<generate_statement(Head(block))>> \o generate_statements(Tail(block))

\* The mutant of the For arm: the init text keeps its terminator.
generate_statement_For_untrimmed(stmt) ==
    LET init_code == generate_statement(stmt.init)
        cond_code == generate_expression(stmt.cond)
        update_code == generate_expression(stmt.update)
        block_code == join(generate_statements(stmt.block), Newline)
    IN  ForOpen \o init_code \o SemiSpace \o cond_code
            \o SemiSpace \o update_code \o BlockOpen \o block_code \o BlockClose

\* generate_statement, Statement::For arm
generate_statement_For(stmt) ==
    LET init_code == generate_statement(stmt.init)
        cond_code == generate_expression(stmt.cond)
        update_code == generate_expression(stmt.update)
        block_code == join(generate_statements(stmt.block), Newline)
    IN  ForOpen \o trim_end_matches(init_code, ";") \o SemiSpace \o cond_code
            \o SemiSpace \o update_code \o BlockOpen \o block_code \o BlockClose

generate_statement(stmt) ==
    CASE stmt.type = "Print" ->
            ConsoleLogOpen \o join(generate_expressions(stmt.expressions), CommaSpace)
                \o CloseSemi
      [] stmt.type = "Const" ->
            ConstSpace \o stmt.name \o SpaceEqSpace \o generate_expression(stmt.expr) \o Semi
      [] stmt.type = "Let" ->
            LetSpace \o stmt.name \o SpaceEqSpace \o generate_expression(stmt.expr) \o Semi
      [] stmt.type = "If" ->
            LET then_code == join(generate_statements(stmt.then_block), Newline)
                else_code == IF stmt.else_block = None THEN << >>
                             ELSE ElseOpen
                                  \o join(generate_statements(stmt.else_block[1]), Newline)
                                  \o BlockClose
            IN  IfOpen \o generate_expression(stmt.cond) \o BlockOpen \o then_code
                    \o BlockClose \o else_code
      [] stmt.type = "While" ->
            WhileOpen \o generate_expression(stmt.cond) \o BlockOpen
                \o join(generate_statements(stmt.block), Newline) \o BlockClose
      [] stmt.type = "For" -> generate_statement_For(stmt)

\* sequence reversal, for the mutant below
RECURSIVE reversed(_)
reversed(seq) == IF seq = << >> THEN << >> ELSE reversed(Tail(seq)) \o <<Head(seq)>>

\* The mutant of generate_program: the statements are emitted last to first.
generate_program_reversed(stmts) == join(reversed(generate_statements(stmts)), Newline)

generate_program(stmts) == join(generate_statements(stmts), Newline)

-----------------------------------------------------------------------------
(* parser.rs: the pairs pest hands over, lowered to the AST *)

\* A pest Pair: its rule, its inner pairs and the text it spans (as_str)
Pair(rule, inner) == [rule |-> rule, inner |-> inner, text |-> << >>]
Leaf(rule, text) == [rule |-> rule, inner |-> << >>, text |-> text]

\* Result<T, pest::error::Error<Rule>>
OkV(v) == [ok |-> TRUE, value |-> v]
ParsingError == [ok |-> FALSE, err |-> [variant |-> "ParsingError"]]
CustomError(message) == [ok |-> FALSE, err |-> [variant |-> "CustomError", message |-> message]]

\* str::parse::<i32>() of a run of decimal digits
RECURSIVE parse_i32_from(_, _)
parse_i32_from(text, acc) ==
    IF text = << >> THEN acc
    ELSE parse_i32_from(Tail(text),
                        acc * 10 + (CHOOSE d \in 0..9 : Digits[d + 1] = Head(text)))

parse_i32(text) == parse_i32_from(text, 0)

RECURSIVE parse_expression(_)

parse_term(pair) ==
    IF pair.inner = << >> THEN CustomError("Expected term content")
    ELSE LET inner_pair == pair.inner[1]
         IN  CASE inner_pair.rule = "number" -> OkV(Number(parse_i32(inner_pair.text)))
               [] inner_pair.rule = "ident" -> OkV(Identifier(inner_pair.text))
               [] inner_pair.rule = "string" ->
                     OkV(StringLit(SubSeq(inner_pair.text, 2, Len(inner_pair.text) - 1)))
               [] inner_pair.rule = "expression" -> parse_expression(inner_pair)
               [] OTHER -> CustomError("Unknown term type")

\* The mutant of the operand loop: the chain is folded from the right.
RECURSIVE parse_operands_right(_, _)
parse_operands_right(left, inner) ==
    IF inner = << >> THEN OkV(left)
    ELSE IF inner[1].rule = "operator"
    THEN IF Len(inner) < 2 THEN CustomError("Expected right operand")
         ELSE LET first == parse_term(inner[2])
              IN  IF ~first.ok THEN first
                  ELSE LET right == parse_operands_right(first.value, SubSeq(inner, 3, Len(inner)))
                       IN  IF ~right.ok THEN right
                           ELSE OkV(BinaryOp(left, inner[1].text, right.value))
    ELSE CustomError("Unexpected pair in expression")

\* parse_expression's `while let Some(op_pair) = inner.next()` loop
RECURSIVE parse_operands(_, _)
parse_operands(left, inner) ==
    IF inner = << >> THEN OkV(left)
    ELSE IF inner[1].rule = "operator"
    THEN IF Len(inner) < 2 THEN CustomError("Expected right operand")
         ELSE LET right == parse_term(inner[2])
              IN  IF ~right.ok THEN right
                  ELSE parse_operands(BinaryOp(left, inner[1].text, right.value),
                                      SubSeq(inner, 3, Len(inner)))
    ELSE CustomError("Unexpected pair in expression")

parse_expression(pair) ==
    IF pair.inner = << >> THEN CustomError("Expected term in expression")
    ELSE LET left == parse_term(pair.inner[1])
         IN  IF ~left.ok THEN left ELSE parse_operands(left.value, Tail(pair.inner))

\* parse_print_statement's loop: every expression pair is lowered, others skipped
RECURSIVE parse_expressions(_)
parse_expressions(pairs) ==
    IF pairs = << >> THEN OkV(<< >>)
    ELSE IF Head(pairs).rule # "expression" THEN parse_expressions(Tail(pairs))
    ELSE LET e == parse_expression(Head(pairs))
         IN  IF ~e.ok THEN e
             ELSE LET rest == parse_expressions(Tail(pairs))
                  IN  IF ~rest.ok THEN rest ELSE OkV(<<e.value>> \o rest.value)
\* The mutant of parse_print_statement: a print of no expression is lowered to
\* a Print of no argument.
parse_print_statement_unchecked(pair) ==
    LET expressions == parse_expressions(pair.inner)
    IN  IF ~expressions.ok THEN expressions
        ELSE OkV(PrintStmt(expressions.value))

parse_print_statement(pair) ==
    LET expressions == parse_expressions(pair.inner)
    IN  IF ~expressions.ok THEN expressions
        ELSE IF expressions.value = << >>
        THEN CustomError("bahubali() requires at least one argument")
        ELSE OkV(PrintStmt(expressions.value))

parse_const_statement(pair) ==
    IF Len(pair.inner) < 1 THEN CustomError("Expected identifier in rrr declaration")
    ELSE IF Len(pair.inner) < 2 THEN CustomError("Expected expression in rrr declaration")
    ELSE LET e == parse_expression(pair.inner[2])
         IN  IF ~e.ok THEN e ELSE OkV(Const(pair.inner[1].text, e.value))

parse_let_statement(pair) ==
    IF Len(pair.inner) < 1 THEN CustomError("Expected identifier in pushpa declaration")
    ELSE IF Len(pair.inner) < 2 THEN CustomError("Expected expression in pushpa declaration")
    ELSE LET e == parse_expression(pair.inner[2])
         IN  IF ~e.ok THEN e ELSE OkV(Let(pair.inner[1].text, e.value))

RECURSIVE parse_statement(_)

\* `for pair in inner { if pair.as_rule() == Rule::statement { push(parse_statement(pair)?) } }`
RECURSIVE parse_statements(_)
parse_statements(pairs) ==
    IF pairs = << >> THEN OkV(<< >>)
    ELSE IF Head(pairs).rule # "statement" THEN parse_statements(Tail(pairs))
    ELSE LET stmt == parse_statement(Head(pairs))
         IN  IF ~stmt.ok THEN stmt
             ELSE LET rest == parse_statements(Tail(pairs))
                  IN  IF ~rest.ok THEN rest ELSE OkV(<<stmt.value>> \o rest.value)

\* parse_if_statement's loop over the pairs after the condition
RECURSIVE parse_if_blocks(_, _, _)
parse_if_blocks(pairs, then_statements, else_statements) ==
    IF pairs = << >> THEN OkV([then_statements |-> then_statements,
                               else_statements |-> else_statements])
    ELSE CASE Head(pairs).rule = "statement" ->
                LET stmt == parse_statement(Head(pairs))
                IN  IF ~stmt.ok THEN stmt
                    ELSE parse_if_blocks(Tail(pairs), Append(then_statements, stmt.value),
                                         else_statements)
           [] Head(pairs).rule = "else_block" ->
                LET else_block == parse_statements(Head(pairs).inner)
                IN  IF ~else_block.ok THEN else_block
                    ELSE parse_if_blocks(Tail(pairs), then_statements, Some(else_block.value))
           [] OTHER -> parse_if_blocks(Tail(pairs), then_statements, else_statements)

parse_if_statement(pair) ==
    IF pair.inner = << >> THEN CustomError("Expected condition in magadheera statement")
    ELSE LET cond == parse_expression(pair.inner[1])
         IN  IF ~cond.ok THEN cond
             ELSE LET blocks == parse_if_blocks(Tail(pair.inner), << >>, None)
                  IN  IF ~blocks.ok THEN blocks
                      ELSE OkV(If(cond.value, blocks.value.then_statements,
                                  blocks.value.else_statements))

parse_while_statement(pair) ==
    IF pair.inner = << >> THEN CustomError("Expected condition in pokiri statement")
    ELSE LET cond == parse_expression(pair.inner[1])
         IN  IF ~cond.ok THEN cond
             ELSE LET stmts == parse_statements(Tail(pair.inner))
                  IN  IF ~stmts.ok THEN stmts ELSE OkV(While(cond.value, stmts.value))

parse_for_statement(pair) ==
    IF Len(pair.inner) < 1 THEN CustomError("Expected initialization in eega statement")
    ELSE LET init == parse_statement(pair.inner[1])
         IN  IF ~init.ok THEN init
             ELSE IF Len(pair.inner) < 2
             THEN CustomError("Expected condition in eega statement")
             ELSE LET cond == parse_expression(pair.inner[2])
                  IN  IF ~cond.ok THEN cond
                      ELSE IF Len(pair.inner) < 3
                      THEN CustomError("Expected update expression in eega statement")
                      ELSE LET update == parse_expression(pair.inner[3])
                           IN  IF ~update.ok THEN update
                               ELSE LET stmts == parse_statements(SubSeq(pair.inner, 4,
                                                                         Len(pair.inner)))
                                    IN  IF ~stmts.ok THEN stmts
                                        ELSE OkV(For(init.value, cond.value, update.value,
                                                     stmts.value))

parse_statement(pair) ==
    IF pair.inner = << >> THEN CustomError("Expected statement content")
    ELSE LET inner_pair == pair.inner[1]
         IN  CASE inner_pair.rule = "print_statement" -> parse_print_statement(inner_pair)
               [] inner_pair.rule = "const_statement" -> parse_const_statement(inner_pair)
               [] inner_pair.rule = "let_statement" -> parse_let_statement(inner_pair)
               [] inner_pair.rule = "if_statement" -> parse_if_statement(inner_pair)
               [] inner_pair.rule = "while_statement" -> parse_while_statement(inner_pair)
               [] inner_pair.rule = "for_statement" -> parse_for_statement(inner_pair)
               [] OTHER -> CustomError("Unknown statement type")

\* What MyLanguageParser::parse(Rule::program, input) gives for a source text:
\* an error, or the program pair
GrammarError == [matched |-> FALSE]
Matched(program) == [matched |-> TRUE, program |-> program]

\* The mutant of parse_program: a program of no statement is returned as it is.
parse_program_lenient(input) ==
    IF ~input.matched THEN ParsingError
    ELSE parse_statements(input.program.inner)

parse_program(input) ==
    IF ~input.matched THEN ParsingError
    ELSE LET stmts == parse_statements(input.program.inner)
         IN  IF ~stmts.ok THEN stmts
             ELSE IF stmts.value = << >>
             THEN CustomError("No valid statements found. Check your syntax.")
             ELSE stmts

-----------------------------------------------------------------------------
(* compiler.rs: CompilationError, CompilationResult, compile_with_details *)

\* The opening text of the two messages compile_with_details formats
FailedToParse ==
    <<"F", "a", "i", "l", "e", "d", " ", "t", "o", " ", "p", "a", "r", "s", "e", " ",
      "T", "F", "I", " ", "c", "o", "d", "e", ":", " ">>
ValidationFailed ==
    <<"V", "a", "l", "i", "d", "a", "t", "i", "o", "n", " ", "f", "a", "i", "l", "e", "d",
      ":", " ">>

\* `{}` of an error value: its Display text, kept as one element of the message
Display(e) == <<e>>

\* CompilationError::General { message, context }
General(message, ctx) ==
    [variant |-> "General", message |-> message, context |-> ctx]

\* CompilationError::ValidationError { message, line, context, suggestion }
ValidationError(message, line, ctx, suggestion) ==
    [variant |-> "ValidationError", message |-> message, line |-> line,
     context |-> ctx, suggestion |-> suggestion]

\* CompilationError::ParseError { message, ... }
ParseError(message, ctx) ==
    [variant |-> "ParseError", message |-> message, context |-> ctx]

\* CompilationResult::new(js_code, statement_count)
CompilationResult(code, statement_count) ==
    [js_code |-> code, warnings |-> << >>, statement_count |-> statement_count]

\* CompilationOptions { format_output, add_comments, strict_mode, minify }
CompilationOptions(format_output, add_comments, strict_mode, minify) ==
    [format_output |-> format_output, add_comments |-> add_comments,
     strict_mode |-> strict_mode, minify |-> minify]

\* The thresholds of add_compilation_warnings
PrintArgsThreshold == 5
BlockThreshold == 10

\* add_compilation_warnings: one warning per top-level Print of more than five
\* arguments and per top-level While / For of more than ten body statements
RECURSIVE warnings_from(_, _)
warnings_from(stmts, i) ==
    IF i > Len(stmts) THEN << >>
    ELSE LET stmt == stmts[i]
             warning ==
                CASE stmt.type = "Print" /\ Len(stmt.expressions) > PrintArgsThreshold ->
                        <<[statement |-> to_string(i), construct |-> "Print statement",
                           count |-> to_string(Len(stmt.expressions))]>>
                  [] stmt.type = "While" /\ Len(stmt.block) > BlockThreshold ->
                        <<[statement |-> to_string(i), construct |-> "While loop",
                           count |-> to_string(Len(stmt.block))]>>
                  [] stmt.type = "For" /\ Len(stmt.block) > BlockThreshold ->
                        <<[statement |-> to_string(i), construct |-> "For loop",
                           count |-> to_string(Len(stmt.block))]>>
                  [] OTHER -> << >>
         IN  warning \o warnings_from(stmts, i + 1)

add_compilation_warnings(stmts, result) ==
    [result EXCEPT !.warnings = result.warnings \o warnings_from(stmts, 1)]

\* CompilationStats::default()
CompilationStatsDefault ==
    [total_statements |-> 0, print_statements |-> 0, const_declarations |-> 0,
     let_declarations |-> 0, if_statements |-> 0, while_loops |-> 0, for_loops |-> 0]

\* count_statement_recursive: the counter of the statement's kind goes up by
\* one, then the statements of its blocks are counted; the init, condition
\* and update of a For are not looked at
RECURSIVE count_statement_recursive(_, _)
RECURSIVE count_statements(_, _)
count_statements(block, counted) ==
    IF block = << >> THEN counted
    ELSE count_statements(Tail(block), count_statement_recursive(Head(block), counted))

count_statement_recursive(stmt, counted) ==
    CASE stmt.type = "Print" -> [counted EXCEPT !.print_statements = @ + 1]
      [] stmt.type = "Const" -> [counted EXCEPT !.const_declarations = @ + 1]
      [] stmt.type = "Let" -> [counted EXCEPT !.let_declarations = @ + 1]
      [] stmt.type = "If" ->
            LET then_counted ==
                    count_statements(stmt.then_block, [counted EXCEPT !.if_statements = @ + 1])
            IN  IF stmt.else_block = None THEN then_counted
                ELSE count_statements(stmt.else_block[1], then_counted)
      [] stmt.type = "While" ->
            count_statements(stmt.block, [counted EXCEPT !.while_loops = @ + 1])
      [] stmt.type = "For" ->
            count_statements(stmt.block, [counted EXCEPT !.for_loops = @ + 1])

\* The mutant of get_compilation_stats: the program is validated as well.
get_compilation_stats_validating(parsed) ==
    IF ~parsed.ok THEN Err(parsed.err)
    ELSE IF ~validate_program(parsed.value).ok THEN Err(validate_program(parsed.value).err)
    ELSE OkV(count_statements(parsed.value,
                [CompilationStatsDefault EXCEPT !.total_statements = Len(parsed.value)]))
\* The mutant of get_compilation_stats: total_statements is the sum of the
\* counters, nested statements included.
get_compilation_stats_total_nested(parsed) ==
    IF ~parsed.ok THEN Err(parsed.err)
    ELSE LET counted == count_statements(parsed.value, CompilationStatsDefault)
         IN  OkV([counted EXCEPT !.total_statements =
                        counted.print_statements + counted.const_declarations
                            + counted.let_declarations + counted.if_statements
                            + counted.while_loops + counted.for_loops])

\* get_compilation_stats, given what parse_program(source) returned: its error
\* by `?`, or the counts
get_compilation_stats(parsed) ==
    IF ~parsed.ok THEN Err(parsed.err)
    ELSE OkV(count_statements(parsed.value,
                [CompilationStatsDefault EXCEPT !.total_statements = Len(parsed.value)]))

\* str::lines(): the pieces between line feeds, each without a final carriage
\* return; a last piece that is empty is not a line
lines(text) ==
    LET feeds == {i \in 1..Len(text) : text[i] = "\n"}
        ends == feeds \cup (IF text # << >> /\ text[Len(text)] # "\n"
                            THEN {Len(text) + 1} ELSE {})
        line_to(end) ==
            LET before == {f \in feeds : f < end}
                start == IF before = {} THEN 1
                         ELSE (CHOOSE f \in before : \A g \in before : g <= f) + 1
                line == SubSeq(text, start, end - 1)
            IN  IF line # << >> /\ line[Len(line)] = "\r"
                THEN SubSeq(line, 1, Len(line) - 1) ELSE line
    IN  [k \in 1..Cardinality(ends) |->
            line_to(CHOOSE e \in ends : Cardinality({f \in ends : f < e}) = k - 1)]

Whitespace == {" ", "\t", "\n", "\r"}

\* str::trim(): without the white space at both ends
RECURSIVE trim_start(_)
trim_start(text) ==
    IF text # << >> /\ Head(text) \in Whitespace THEN trim_start(Tail(text)) ELSE text

RECURSIVE trim_end(_)
trim_end(text) ==
    IF text # << >> /\ text[Len(text)] \in Whitespace
    THEN trim_end(SubSeq(text, 1, Len(text) - 1)) ELSE text

trim(text) == trim_end(trim_start(text))

\* " ".repeat(n)
repeat(piece, n) == [i \in 1..n |-> piece]

IndentSize == 4

\* format_js_code: every line trimmed and indented by the depth of the braces
\* open before it, each followed by a line feed
RECURSIVE format_lines(_, _)
format_lines(code_lines, indent_level) ==
    IF code_lines = << >> THEN << >>
    ELSE LET trimmed == trim(Head(code_lines))
         IN  IF trimmed = << >> THEN <<"\n">> \o format_lines(Tail(code_lines), indent_level)
             ELSE LET level == IF Head(trimmed) = "}"
                               THEN (IF indent_level = 0 THEN 0 ELSE indent_level - 1)
                               ELSE indent_level
                      after == IF trimmed[Len(trimmed)] = "{" THEN level + 1 ELSE level
                  IN  repeat(" ", level * IndentSize) \o trimmed \o <<"\n">>
                        \o format_lines(Tail(code_lines), after)

format_js_code(code) == format_lines(lines(code), 0)

GeneratedFrom ==
    <<"/", "/", " ", "G", "e", "n", "e", "r", "a", "t", "e", "d", " ", "f", "r", "o", "m", " ",
      "T", "F", "I", " ", "s", "o", "u", "r", "c", "e", " ", "c", "o", "d", "e", "\n">>
OriginalSource ==
    <<"/", "/", " ", "O", "r", "i", "g", "i", "n", "a", "l", " ", "s", "o", "u", "r", "c", "e",
      ":", "\n">>

\* add_source_comments: the two heading lines, `// i: line` for every source
\* line that is not blank, an empty line, then the code
RECURSIVE comment_lines(_, _)
comment_lines(source_lines, i) ==
    IF i > Len(source_lines) THEN << >>
    ELSE (IF trim(source_lines[i]) = << >> THEN << >>
          ELSE <<"/", "/", " ">> \o to_string(i) \o <<":", " ">> \o trim(source_lines[i])
                    \o <<"\n">>)
            \o comment_lines(source_lines, i + 1)

add_source_comments(code, text) ==
    GeneratedFrom \o OriginalSource \o comment_lines(lines(text), 1) \o <<"\n">> \o code

\* The mutant of compile_with_options: minify takes the line feeds out.
compile_with_options_minifying(details, text, opts) ==
    IF ~details.ok THEN details
    ELSE LET formatted == IF opts.format_output THEN format_js_code(details.value.js_code)
                          ELSE details.value.js_code
             commented == IF opts.add_comments THEN add_source_comments(formatted, text)
                          ELSE formatted
             minified == IF opts.minify
                         THEN SelectSeq(commented, LAMBDA ch : ch # "\n") ELSE commented
         IN  OkV([details.value EXCEPT !.js_code = minified])

\* compile_with_options, given what compile_with_details(source) returned: its
\* error by `?`, or the result with format_output and add_comments applied in
\* this order to its js_code; strict_mode and minify are not read
compile_with_options(details, text, opts) ==
    IF ~details.ok THEN details
    ELSE LET formatted == IF opts.format_output THEN format_js_code(details.value.js_code)
                          ELSE details.value.js_code
             commented == IF opts.add_comments THEN add_source_comments(formatted, text)
                          ELSE formatted
         IN  OkV([details.value EXCEPT !.js_code = commented])

-----------------------------------------------------------------------------
(* lexer.rs: Lexer *)

\* Lexer::new, given the tokens logos makes of the source text
Lexer(tokens) == [tokens |-> tokens, position |-> 0]

\* Vec::get with a 0-based index
get(vec, i) == IF i < Len(vec) THEN Some(vec[i + 1]) ELSE None

\* Lexer::current
current(lx) == get(lx.tokens, lx.position)

\* Lexer::peek
peek(lx) == get(lx.tokens, lx.position + 1)

\* The mutant of advance: the position is increased at the end of the tokens
\* as well.
advance_unguarded(lx) ==
    LET moved == [lx EXCEPT !.position = @ + 1]
    IN  [lexer |-> moved, result |-> current(moved)]

\* Lexer::advance: the Lexer after the call and the token returned
advance(lx) ==
    LET moved == IF lx.position < Len(lx.tokens) THEN [lx EXCEPT !.position = @ + 1] ELSE lx
    IN  [lexer |-> moved, result |-> current(moved)]

\* Lexer::is_eof
is_eof(lx) == lx.position >= Len(lx.tokens)

\* Lexer::reset
reset(lx) == [lx EXCEPT !.position = 0]

-----------------------------------------------------------------------------
(* The inputs: names, expressions, statements and programs *)

X == <<"x">>
Y == <<"y">>
Names == {X, Y}

N1 == Number(1)
IdX == Identifier(X)
IdY == Identifier(Y)
Plus == <<"+">>
Lt == <<"<">>
Amp == <<"&">>

\* bahubali(...) statements: no argument, a reference, an unknown operator
PrintStmts ==
    { PrintStmt(<< >>), PrintStmt(<<IdX>>), PrintStmt(<<IdY>>),
      PrintStmt(<<BinaryOp(N1, Amp, N1)>>) }

\* rrr / pushpa declarations: literal initialisers, an initialiser naming the
\* declared name, an initialiser naming another name, an empty name
DeclStmts ==
    { Const(X, N1), Let(X, N1), Const(Y, N1), Let(Y, N1),
      Const(X, IdX), Let(X, IdY), Const(<< >>, N1) }

\* magadheera / karthikeya
IfStmts ==
    { If(N1, << >>, None),
      If(IdY, << >>, None),
      If(N1, <<PrintStmt(<<IdX>>)>>, Some(<< >>)),
      If(N1, <<Let(Y, N1)>>, Some(<<PrintStmt(<<IdY>>)>>)),
      If(N1, <<Let(Y, N1), PrintStmt(<<IdY>>)>>, None),
      If(N1, <<Let(X, N1)>>, Some(<<Let(X, N1)>>)),
      If(N1, <<PrintStmt(<< >>)>>, None) }

\* pokiri
WhileStmts ==
    { While(N1, << >>),
      While(BinaryOp(IdX, Lt, N1), <<PrintStmt(<<IdX>>), Let(X, BinaryOp(IdX, Plus, N1))>>),
      While(N1, <<Let(Y, N1)>>),
      While(N1, <<PrintStmt(<< >>), PrintStmt(<< >>)>>),
      While(N1, <<If(N1, <<Let(Y, N1)>>, Some(<<PrintStmt(<< >>)>>))>>) }

\* eega
ForStmts ==
    { For(Let(X, N1), BinaryOp(IdX, Lt, N1), BinaryOp(IdX, Plus, N1), <<PrintStmt(<<IdX>>)>>),
      For(Let(X, N1), IdX, IdX, << >>),
      For(Let(X, N1), IdY, IdX, << >>),
      For(Let(Y, N1), IdY, IdY, <<Let(Y, N1)>>),
      For(PrintStmt(<< >>), N1, N1, <<PrintStmt(<<N1>>)>>),
      For(Const(X, N1), BinaryOp(IdX, Lt, N1), IdX, <<PrintStmt(<<IdX>>)>>) }

StmtSet == PrintStmts \cup DeclStmts \cup IfStmts \cup WhileStmts \cup ForStmts

\* Every program of at most MaxStmts top-level statements
Programs == UNION { [1..n -> StmtSet] : n \in 0..MaxStmts }

\* The expressions handed to the generator: literals of every kind (a negative
\* and a several-digit number, a string holding a parenthesis) and every tree
\* of at most MaxOps BinaryOp nodes over them
Times == <<"*">>
LeafExprs ==
    { Number(1), Number(2), Number(3), Number(0 - 120), IdX, StringLit(<<"(", "a">>) }
GenOperators == {Plus, Times}

RECURSIVE ExprsOfOps(_)

\* the trees of n BinaryOp nodes whose left operand holds at most i of them
RECURSIVE ExprsSplit(_, _)
ExprsSplit(n, i) ==
    IF i < 0 THEN {}
    ELSE { BinaryOp(l, op, r) : l \in ExprsOfOps(i), op \in GenOperators,
                                r \in ExprsOfOps(n - 1 - i) }
         \cup ExprsSplit(n, i - 1)

ExprsOfOps(n) == IF n = 0 THEN LeafExprs ELSE ExprsSplit(n, n - 1)

RECURSIVE ExprsUpTo(_)
ExprsUpTo(n) == IF n = 0 THEN ExprsOfOps(0) ELSE ExprsOfOps(n) \cup ExprsUpTo(n - 1)

GenExprs == ExprsUpTo(MaxOps)

\* The pairs of a source text, built from the program the text spells: an
\* operator chain is one expression pair of terms and operators, an operand
\* that is itself an operation stands in parentheses (a term holding an
\* expression)
RECURSIVE ExpressionPair(_)

TermPair(e) ==
    CASE e.type = "Number" -> Pair("term", <<Leaf("number", to_string(e.n))>>)
      [] e.type = "Identifier" -> Pair("term", <<Leaf("ident", e.name)>>)
      [] e.type = "String" -> Pair("term", <<Leaf("string", <<"\"">> \o e.s \o <<"\"">>)>>)
      [] e.type = "BinaryOp" -> Pair("term", <<ExpressionPair(e)>>)

RECURSIVE OperatorChain(_)
OperatorChain(e) ==
    IF e.type = "BinaryOp"
    THEN OperatorChain(e.left) \o <<Leaf("operator", e.op), TermPair(e.right)>>
    ELSE <<TermPair(e)>>

ExpressionPair(e) == Pair("expression", OperatorChain(e))

RECURSIVE ExpressionPairs(_)
ExpressionPairs(es) ==
    IF es = << >> THEN << >> ELSE <<ExpressionPair(Head(es))>> \o ExpressionPairs(Tail(es))

RECURSIVE StatementPair(_)

RECURSIVE StatementPairs(_)
StatementPairs(stmts) ==
    IF stmts = << >> THEN << >>
    ELSE <<StatementPair(Head(stmts))>> \o StatementPairs(Tail(stmts))

StatementPair(stmt) ==
    Pair("statement", <<
        CASE stmt.type = "Print" -> Pair("print_statement", ExpressionPairs(stmt.expressions))
          [] stmt.type = "Const" ->
                Pair("const_statement", <<Leaf("ident", stmt.name), ExpressionPair(stmt.expr)>>)
          [] stmt.type = "Let" ->
                Pair("let_statement", <<Leaf("ident", stmt.name), ExpressionPair(stmt.expr)>>)
          [] stmt.type = "If" ->
                Pair("if_statement",
                     <<ExpressionPair(stmt.cond)>> \o StatementPairs(stmt.then_block)
                        \o (IF stmt.else_block = None THEN << >>
                            ELSE <<Pair("else_block", StatementPairs(stmt.else_block[1]))>>))
          [] stmt.type = "While" ->
                Pair("while_statement",
                     <<ExpressionPair(stmt.cond)>> \o StatementPairs(stmt.block))
          [] stmt.type = "For" ->
                Pair("for_statement",
                     <<StatementPair(stmt.init), ExpressionPair(stmt.cond),
                       ExpressionPair(stmt.update)>> \o StatementPairs(stmt.block)) >>)

ProgramPair(stmts) == Pair("program", StatementPairs(stmts) \o <<Leaf("EOI", << >>)>>)

\* The source texts: one the grammar rejects, and one for every program of at
\* most MaxStmts statements whose names are not empty (the empty program too)
SourceStmts == StmtSet \ { Const(<< >>, N1) }

\* n copies of one value in a row
Replicate(value, n) == [i \in 1..n |-> value]

\* Programs at and just over the thresholds of add_compilation_warnings: a
\* print of five and of six arguments, loops of ten and of eleven body
\* statements, an if of eleven, a long print inside a loop body, and a long
\* print followed by a long loop
LongPrint == PrintStmt(Replicate(N1, PrintArgsThreshold + 1))
LongBlock == Replicate(PrintStmt(<<N1>>), BlockThreshold + 1)
WarningPrograms ==
    { <<PrintStmt(Replicate(N1, PrintArgsThreshold))>>,
      <<LongPrint>>,
      <<While(N1, Replicate(PrintStmt(<<N1>>), BlockThreshold))>>,
      <<While(N1, LongBlock)>>,
      <<For(Let(X, N1), IdX, IdX, Replicate(PrintStmt(<<IdX>>), BlockThreshold))>>,
      <<For(Let(X, N1), IdX, IdX, LongBlock)>>,
      <<If(N1, LongBlock, None)>>,
      <<While(N1, <<LongPrint>>)>>,
      <<LongPrint, While(N1, LongBlock)>> }

Sources ==
    { GrammarError } \cup
    { Matched(ProgramPair(stmts)) : stmts \in UNION { [1..n -> SourceStmts] : n \in 0..MaxStmts } }
        \cup { Matched(ProgramPair(stmts)) : stmts \in WarningPrograms }

\* A source text together with what the grammar makes of it
WithText(src, text) ==
    IF src.matched THEN [matched |-> TRUE, program |-> src.program, text |-> text]
    ELSE [matched |-> FALSE, text |-> text]

\* The programs compiled with options: nested blocks, a for, a long print, a
\* program validation rejects
OptionPrograms ==
    { <<PrintStmt(<<StringLit(<<"h", "i">>)>>)>>,
      <<Let(X, N1),
        While(BinaryOp(IdX, Lt, N1),
              <<PrintStmt(<<IdX>>),
                If(BinaryOp(IdX, Lt, N1), <<PrintStmt(<<IdX>>)>>, Some(<<PrintStmt(<<N1>>)>>))>>)>>,
      <<For(Let(X, N1), BinaryOp(IdX, Lt, N1), BinaryOp(IdX, Plus, N1), <<PrintStmt(<<IdX>>)>>)>>,
      <<LongPrint>>,
      <<PrintStmt(<<IdX>>)>> }

\* The texts the comments are made from: an empty one, one line, and indented
\* lines around a blank one
SourceTexts ==
    { << >>,
      <<"p", "(", "1", ")", ";">>,
      <<"\n", " ", " ", "a", ";", "\n", " ", "\n", "\t", "b", ";", " ", "\n">> }

OptionSources ==
    { WithText(src, text) :
        src \in { GrammarError } \cup { Matched(ProgramPair(stmts)) : stmts \in OptionPrograms },
        text \in SourceTexts }

\* The expression pairs handed to parse_expression: chains of at most MaxTerms
\* terms joined by operators; a term is a number, an identifier, a string or a
\* parenthesized expression (itself a chain, possibly holding a parenthesized
\* term)
A == <<"a">>
B == <<"b">>
C == <<"c">>
LeafTerms ==
    { Pair("term", <<Leaf("number", <<"1", "2">>)>>),
      Pair("term", <<Leaf("ident", A)>>),
      Pair("term", <<Leaf("ident", B)>>),
      Pair("term", <<Leaf("ident", C)>>),
      Pair("term", <<Leaf("string", <<"\"", "s", "\"">>)>>) }
TermA == Pair("term", <<Leaf("ident", A)>>)
TermB == Pair("term", <<Leaf("ident", B)>>)
TermC == Pair("term", <<Leaf("ident", C)>>)
OpPlus == Leaf("operator", Plus)
OpTimes == Leaf("operator", <<"*">>)
ParenBPlusC == Pair("term", <<Pair("expression", <<TermB, OpPlus, TermC>>)>>)
ParenTerms ==
    { ParenBPlusC,
      Pair("term", <<Pair("expression", <<TermA>>)>>),
      Pair("term", <<Pair("expression", <<TermA, OpTimes, ParenBPlusC, OpPlus, TermC>>)>>) }
TermPairs == LeafTerms \cup ParenTerms
OperatorPairs == { OpPlus, OpTimes }

RECURSIVE ChainsOf(_)
ChainsOf(n) ==
    IF n <= 1 THEN { <<t>> : t \in TermPairs }
    ELSE { chain \o <<op, t>> : chain \in ChainsOf(n - 1), op \in OperatorPairs, t \in TermPairs }

RECURSIVE ChainsUpTo(_)
ChainsUpTo(n) == IF n <= 1 THEN ChainsOf(1) ELSE ChainsOf(n) \cup ChainsUpTo(n - 1)

ExpressionInputs == { Pair("expression", chain) : chain \in ChainsUpTo(MaxTerms) }

\* The statements handed to the generator: every kind, declarations at top
\* level and nested in blocks and For inits, a string initialiser holding a
\* semicolon, empty blocks, a For nested in a For
GenStmtSet ==
    { PrintStmt(<<IdX>>),
      PrintStmt(<<StringLit(<<"h", "i">>), BinaryOp(IdX, Plus, N1)>>),
      Const(X, Number(10)),
      Let(Y, StringLit(<<";">>)),
      Let(X, BinaryOp(BinaryOp(IdX, Plus, N1), Times, IdY)),
      If(BinaryOp(IdX, Lt, N1), <<Let(Y, N1), PrintStmt(<<IdY>>)>>, Some(<<Const(Y, N1)>>)),
      If(N1, << >>, None),
      While(BinaryOp(IdX, Lt, N1), <<PrintStmt(<<IdX>>), Let(X, BinaryOp(IdX, Plus, N1))>>),
      For(Let(X, Number(0)), BinaryOp(IdX, Lt, Number(5)), BinaryOp(IdX, Plus, N1),
          <<PrintStmt(<<IdX>>)>>),
      For(Const(Y, StringLit(<<";">>)), IdY, IdY, <<Let(X, N1), PrintStmt(<<IdX>>)>>),
      For(PrintStmt(<<N1>>), N1, N1, << >>),
      For(Let(X, N1), IdX, IdX,
          <<For(Let(Y, N1), IdY, IdY, <<PrintStmt(<<IdY>>)>>), Const(Y, N1)>>) }

RECURSIVE StmtSeqsOf(_)
StmtSeqsOf(n) ==
    IF n = 0 THEN { << >> }
    ELSE { Append(stmts, stmt) : stmts \in StmtSeqsOf(n - 1), stmt \in GenStmtSet }

RECURSIVE StmtSeqsUpTo(_)
StmtSeqsUpTo(n) == IF n = 0 THEN StmtSeqsOf(0) ELSE StmtSeqsOf(n) \cup StmtSeqsUpTo(n - 1)

GenPrograms == StmtSeqsUpTo(MaxStmts)
\* The operator strings handed to validate_expression: the ten it knows, and
\* strings that are none of them (another sign, the assignment sign, the empty
\* string, a known operator doubled or followed by a blank)
OperatorStrings ==
    ValidOperators \cup { Amp, <<"%">>, <<"=">>, << >>, <<"+", "+">>, <<"+", " ">>, <<"=", ">">> }

\* The expressions handed to validate_expression: the leaves, every operation
\* on two leaves, and operations on operations
ValidatedLeaves == { N1, StringLit(<<"h", "i">>), IdX, IdY }
ValidatedExprs ==
    ValidatedLeaves
        \cup { BinaryOp(l, op, r) : l \in ValidatedLeaves, op \in OperatorStrings, r \in ValidatedLeaves }
        \cup { BinaryOp(BinaryOp(N1, Amp, N1), Plus, N1),
               BinaryOp(N1, Plus, BinaryOp(N1, Amp, N1)),
               BinaryOp(N1, Plus, BinaryOp(IdX, Plus, IdY)),
               BinaryOp(BinaryOp(IdX, Lt, N1), <<"=", "=">>, BinaryOp(IdY, Amp, N1)),
               BinaryOp(BinaryOp(IdX, Lt, N1), <<"!", "=">>, BinaryOp(N1, <<">", "=">>, IdX)) }

\* The contexts validate_expression is handed: a new one, and those that
\* declare_variable calls leave
ValidatedContexts ==
    { NewContext,
      declare_variable(NewContext, X, 1, "Const").context,
      declare_variable(NewContext, Y, 1, "Let").context,
      declare_variable(declare_variable(NewContext, X, 1, "Const").context, Y, 1, "Let").context }

\* The tokens of `rrr x = 42`
TokenConst == [token |-> "Const"]
TokenIdentifierX == [token |-> "Identifier", text |-> X]
TokenAssign == [token |-> "Assign"]
TokenNumber42 == [token |-> "Number", n |-> 42]
Tokens == { TokenConst, TokenIdentifierX, TokenAssign, TokenNumber42 }

\* The token lists of at most MaxTokens tokens
RECURSIVE TokenSeqsUpTo(_)
TokenSeqsUpTo(n) ==
    IF n = 0 THEN { << >> }
    ELSE TokenSeqsUpTo(n - 1)
            \cup { Append(seq, t) : seq \in { q \in TokenSeqsUpTo(n - 1) : Len(q) = n - 1 }, t \in Tokens }

TokenSeqs == TokenSeqsUpTo(MaxTokens)

Entries == { "compile", "compile_with_details" }

-----------------------------------------------------------------------------
(* A ValidationContext driven through its public methods *)

NoCall == [name |-> << >>]
NoResult == [none |-> TRUE]

ValidatorIdle ==
    /\ statements = << >>
    /\ fn = "idle"
    /\ index = 0
    /\ errors = << >>
    /\ vp_result = NoResult
    /\ vpd_result = NoResult

GeneratorIdle ==
    /\ gen_input = Number(0)
    /\ gen_output = None

LexerIdle ==
    /\ lexer = [tokens |-> << >>, position |-> 0]
    /\ lexer_call = NoCall

CallsIdle ==
    /\ LexerIdle
    /\ parse_input = Pair("expression", << >>)
    /\ parse_output = NoResult
    /\ gen_stmts = << >>
    /\ gen_stmt_code = None
    /\ gen_code = None
    /\ options = CompilationOptions(FALSE, FALSE, FALSE, FALSE)
    /\ opt_result = NoResult
    /\ stats = NoResult

CompilerIdle ==
    /\ source = GrammarError
    /\ entry = "compile"
    /\ pc = "idle"
    /\ ast = << >>
    /\ stages = << >>
    /\ js_code = None
    /\ returned = NoResult

InitContext ==
    /\ context = NewContext
    /\ last_call = NoCall
    /\ calls = << >>
    /\ ValidatorIdle
    /\ GeneratorIdle
    /\ CompilerIdle
    /\ CallsIdle

\* context.declare_variable(name, line, decl_type)
DeclareVariable(name, line, decl_type) ==
    /\ Len(calls) < MaxCalls
    /\ LET r == declare_variable(context, name, line, decl_type)
       IN  /\ context' = r.context
           /\ last_call' = [name |-> name, line |-> line, decl_type |-> decl_type,
                            before |-> context, result |-> r.result]
    /\ calls' = Append(calls, [name |-> name, line |-> line, decl_type |-> decl_type,
                                result |-> declare_variable(context, name, line, decl_type).result])
    /\ UNCHANGED <<validateVars, generateVars, compileVars, callVars, lexerVars>>

NextContext ==
    \E name \in Names, line \in 1..MaxLine, decl_type \in DeclarationType :
        DeclareVariable(name, line, decl_type)

SpecContext == InitContext /\ [][NextContext]_vars

-----------------------------------------------------------------------------
(* validate_program and validate_program_detailed run on one program *)

InitValidate ==
    /\ statements \in Programs
    /\ fn = "idle"
    /\ index = 0
    /\ context = NewContext
    /\ errors = << >>
    /\ vp_result = NoResult
    /\ vpd_result = NoResult
    /\ last_call = NoCall
    /\ calls = << >>
    /\ GeneratorIdle
    /\ CompilerIdle
    /\ CallsIdle

\* validate_program(&statements) is entered
CallValidateProgram ==
    /\ fn = "idle"
    /\ vp_result = NoResult
    /\ fn' = "validate_program"
    /\ context' = NewContext
    /\ index' = 0
    /\ last_call' = NoCall
    /\ UNCHANGED <<statements, errors, vp_result, vpd_result, calls, generateVars, compileVars, callVars, lexerVars>>

\* one iteration of validate_program's loop; `?` returns the first error
ValidateProgramStep ==
    /\ fn = "validate_program"
    /\ index < Len(statements)
    /\ LET r == validate_statement(statements[index + 1], index + 1, context)
       IN  /\ context' = r.context
           /\ last_call' = [stmt |-> statements[index + 1], line |-> index + 1,
                            before |-> context, result |-> r.result]
           /\ IF r.result.ok
              THEN /\ index' = index + 1
                   /\ UNCHANGED <<fn, vp_result>>
              ELSE /\ vp_result' = r.result
                   /\ fn' = "idle"
                   /\ UNCHANGED index
    /\ UNCHANGED <<statements, errors, vpd_result, calls, generateVars, compileVars, callVars, lexerVars>>

\* validate_program's loop is over: Ok(())
ValidateProgramReturn ==
    /\ fn = "validate_program"
    /\ index = Len(statements)
    /\ vp_result' = Ok
    /\ fn' = "idle"
    /\ UNCHANGED <<statements, context, index, errors, vpd_result, last_call, calls, generateVars, compileVars, callVars, lexerVars>>

\* validate_program_detailed(&statements) is entered
CallValidateProgramDetailed ==
    /\ fn = "idle"
    /\ vpd_result = NoResult
    /\ fn' = "validate_program_detailed"
    /\ context' = NewContext
    /\ errors' = << >>
    /\ index' = 0
    /\ last_call' = NoCall
    /\ UNCHANGED <<statements, vp_result, vpd_result, calls, generateVars, compileVars, callVars, lexerVars>>

\* The mutant of validate_program_detailed's loop: it is left at the first error.
ValidateProgramDetailedStep_break ==
    /\ fn = "validate_program_detailed"
    /\ index < Len(statements)
    /\ LET r == validate_statement(statements[index + 1], index + 1, context)
       IN  /\ context' = r.context
           /\ last_call' = [stmt |-> statements[index + 1], line |-> index + 1,
                            before |-> context, result |-> r.result]
           /\ errors' = IF r.result.ok THEN errors ELSE Append(errors, r.result.err)
           /\ index' = IF r.result.ok THEN index + 1 ELSE Len(statements)
    /\ UNCHANGED <<statements, fn, vp_result, vpd_result, calls, generateVars, compileVars, callVars, lexerVars>>
\* The mutant of validate_program_detailed's loop: an error is put at the front
\* of the list.
ValidateProgramDetailedStep_prepending ==
    /\ fn = "validate_program_detailed"
    /\ index < Len(statements)
    /\ LET r == validate_statement(statements[index + 1], index + 1, context)
       IN  /\ context' = r.context
           /\ last_call' = [stmt |-> statements[index + 1], line |-> index + 1,
                            before |-> context, result |-> r.result]
           /\ errors' = IF r.result.ok THEN errors ELSE <<r.result.err>> \o errors
    /\ index' = index + 1
    /\ UNCHANGED <<statements, fn, vp_result, vpd_result, calls, generateVars, compileVars, callVars, lexerVars>>

\* one iteration of validate_program_detailed's loop: an error is pushed and
\* the loop goes on
ValidateProgramDetailedStep ==
    /\ fn = "validate_program_detailed"
    /\ index < Len(statements)
    /\ LET r == validate_statement(statements[index + 1], index + 1, context)
       IN  /\ context' = r.context
           /\ last_call' = [stmt |-> statements[index + 1], line |-> index + 1,
                            before |-> context, result |-> r.result]
           /\ errors' = IF r.result.ok THEN errors ELSE Append(errors, r.result.err)
    /\ index' = index + 1
    /\ UNCHANGED <<statements, fn, vp_result, vpd_result, calls, generateVars, compileVars, callVars, lexerVars>>

\* validate_program_detailed's loop is over: Ok(()) or Err(errors)
ValidateProgramDetailedReturn ==
    /\ fn = "validate_program_detailed"
    /\ index = Len(statements)
    /\ vpd_result' = IF errors = << >> THEN Ok ELSE [ok |-> FALSE, errs |-> errors]
    /\ fn' = "idle"
    /\ UNCHANGED <<statements, context, index, errors, vp_result, last_call, calls, generateVars, compileVars, callVars, lexerVars>>

NextValidate ==
    \/ CallValidateProgram
    \/ ValidateProgramStep
    \/ ValidateProgramReturn
    \/ CallValidateProgramDetailed
    \/ ValidateProgramDetailedStep
    \/ ValidateProgramDetailedReturn

SpecValidate == InitValidate /\ [][NextValidate]_vars

-----------------------------------------------------------------------------
(* generate_expression applied to one expression *)

InitGenerate ==
    /\ gen_input \in GenExprs
    /\ gen_output = None
    /\ context = NewContext
    /\ last_call = NoCall
    /\ calls = << >>
    /\ ValidatorIdle
    /\ CompilerIdle
    /\ CallsIdle

\* generate_expression(&expr)
GenerateExpression ==
    /\ gen_output = None
    /\ gen_output' = Some(generate_expression(gen_input))
    /\ UNCHANGED <<gen_input, contextVars, validateVars, compileVars, callVars, lexerVars>>

NextGenerate == GenerateExpression

SpecGenerate == InitGenerate /\ [][NextGenerate]_vars

-----------------------------------------------------------------------------
(* compile and compile_with_details run on one source text *)

InitCompile ==
    /\ source \in Sources
    /\ entry \in Entries
    /\ pc = "parse"
    /\ ast = << >>
    /\ stages = << >>
    /\ js_code = None
    /\ returned = NoResult
    /\ context = NewContext
    /\ last_call = NoCall
    /\ calls = << >>
    /\ ValidatorIdle
    /\ GeneratorIdle
    /\ CallsIdle

\* The mutant of step 1: the parser's error is wrapped as a ParseError.
ParseStage_ParseError ==
    /\ pc = "parse"
    /\ stages' = Append(stages, "parse")
    /\ \E r \in {parse_program(source)} :
           IF r.ok
           THEN /\ ast' = r.value
                /\ pc' = "validate"
                /\ UNCHANGED returned
           ELSE /\ returned' = Err(ParseError(FailedToParse \o Display(r.err), None))
                /\ pc' = "done"
                /\ UNCHANGED ast
    /\ UNCHANGED <<source, entry, js_code, contextVars, validateVars, generateVars, callVars, lexerVars>>

\* Step 1: parse_program(source), its error wrapped as General and returned by `?`
ParseStage ==
    /\ pc = "parse"
    /\ stages' = Append(stages, "parse")
    /\ \E r \in {parse_program(source)} :
           IF r.ok
           THEN /\ ast' = r.value
                /\ pc' = "validate"
                /\ UNCHANGED returned
           ELSE /\ returned' = Err(General(FailedToParse \o Display(r.err),
                                           Some("The parser has already printed detailed error information above")))
                /\ pc' = "done"
                /\ UNCHANGED ast
    /\ UNCHANGED <<source, entry, js_code, contextVars, validateVars, generateVars, callVars, lexerVars>>

\* The mutant of step 2: the validation error is kept but the pipeline goes on.
ValidateStage_goes_on ==
    /\ pc = "validate"
    /\ stages' = Append(stages, "validate")
    /\ LET r == validate_program(ast)
       IN  /\ returned' = IF r.ok THEN returned
                          ELSE Err(ValidationError(ValidationFailed \o Display(r.err),
                                                   None, None, None))
           /\ pc' = "generate"
    /\ UNCHANGED <<source, entry, ast, js_code, contextVars, validateVars, generateVars, callVars, lexerVars>>

\* Step 2: validate_program(&ast), its error wrapped as ValidationError and
\* returned by `?`
ValidateStage ==
    /\ pc = "validate"
    /\ stages' = Append(stages, "validate")
    /\ LET r == validate_program(ast)
       IN  IF r.ok
           THEN /\ pc' = "generate"
                /\ UNCHANGED returned
           ELSE /\ returned' = Err(ValidationError(ValidationFailed \o Display(r.err),
                                                   None, None, None))
                /\ pc' = "done"
    /\ UNCHANGED <<source, entry, ast, js_code, contextVars, validateVars, generateVars, callVars, lexerVars>>

\* Step 3: generate_program(&ast)
GenerateStage ==
    /\ pc = "generate"
    /\ stages' = Append(stages, "generate")
    /\ js_code' = Some(generate_program(ast))
    /\ pc' = "result"
    /\ UNCHANGED <<source, entry, ast, returned, contextVars, validateVars, generateVars, callVars, lexerVars>>

\* Step 4: the CompilationResult with its warnings is returned; compile hands
\* on its js_code
ReturnResult ==
    /\ pc = "result"
    /\ LET result == add_compilation_warnings(ast, CompilationResult(js_code[1], Len(ast)))
       IN  returned' = IF entry = "compile" THEN OkV(result.js_code) ELSE OkV(result)
    /\ pc' = "done"
    /\ UNCHANGED <<source, entry, ast, stages, js_code, contextVars, validateVars, generateVars, callVars, lexerVars>>

NextCompile ==
    \/ ParseStage
    \/ ValidateStage
    \/ GenerateStage
    \/ ReturnResult

SpecCompile == InitCompile /\ [][NextCompile]_vars

-----------------------------------------------------------------------------
(* parse_expression applied to one expression pair *)

InitParse ==
    /\ parse_input \in ExpressionInputs
    /\ parse_output = NoResult
    /\ gen_stmts = << >>
    /\ gen_stmt_code = None
    /\ gen_code = None
    /\ options = CompilationOptions(FALSE, FALSE, FALSE, FALSE)
    /\ opt_result = NoResult
    /\ stats = NoResult
    /\ LexerIdle
    /\ context = NewContext
    /\ last_call = NoCall
    /\ calls = << >>
    /\ ValidatorIdle
    /\ GeneratorIdle
    /\ CompilerIdle

\* parse_expression(pair)
ParseExpression ==
    /\ parse_output = NoResult
    /\ parse_output' = parse_expression(parse_input)
    /\ UNCHANGED <<lexerVars, parse_input, gen_stmts, gen_stmt_code, gen_code, options, opt_result, stats,
                   contextVars, validateVars, generateVars, compileVars>>

NextParse == ParseExpression

SpecParse == InitParse /\ [][NextParse]_vars

-----------------------------------------------------------------------------
(* generate_statement and generate_program applied to one program *)

InitGenerateProgram ==
    /\ gen_stmts \in GenPrograms
    /\ gen_stmt_code = None
    /\ gen_code = None
    /\ parse_input = Pair("expression", << >>)
    /\ parse_output = NoResult
    /\ options = CompilationOptions(FALSE, FALSE, FALSE, FALSE)
    /\ opt_result = NoResult
    /\ stats = NoResult
    /\ LexerIdle
    /\ context = NewContext
    /\ last_call = NoCall
    /\ calls = << >>
    /\ ValidatorIdle
    /\ GeneratorIdle
    /\ CompilerIdle

\* generate_statement(&statements[0])
GenerateStatement ==
    /\ gen_stmts # << >>
    /\ gen_stmt_code = None
    /\ gen_stmt_code' = Some(generate_statement(gen_stmts[1]))
    /\ UNCHANGED <<lexerVars, gen_stmts, gen_code, parse_input, parse_output, options, opt_result, stats,
                   contextVars, validateVars, generateVars, compileVars>>

\* generate_program(&statements)
GenerateProgram ==
    /\ gen_code = None
    /\ gen_code' = Some(generate_program(gen_stmts))
    /\ UNCHANGED <<lexerVars, gen_stmts, gen_stmt_code, parse_input, parse_output, options, opt_result,
                   stats, contextVars, validateVars, generateVars, compileVars>>

NextGenerateProgram ==
    \/ GenerateStatement
    \/ GenerateProgram

SpecGenerateProgram == InitGenerateProgram /\ [][NextGenerateProgram]_vars

-----------------------------------------------------------------------------
(* get_compilation_stats applied to one source text *)

InitStats ==
    /\ source \in Sources
    /\ entry = "compile"
    /\ pc = "idle"
    /\ ast = << >>
    /\ stages = << >>
    /\ js_code = None
    /\ returned = NoResult
    /\ context = NewContext
    /\ last_call = NoCall
    /\ calls = << >>
    /\ ValidatorIdle
    /\ GeneratorIdle
    /\ CallsIdle

\* get_compilation_stats(source): parse_program(source), then the counts
GetCompilationStats ==
    /\ stats = NoResult
    /\ \E parsed \in {parse_program(source)} : stats' = get_compilation_stats(parsed)
    /\ UNCHANGED <<lexerVars, parse_input, parse_output, gen_stmts, gen_stmt_code, gen_code, options,
                   opt_result, contextVars, validateVars, generateVars, compileVars>>

NextStats == GetCompilationStats

SpecStats == InitStats /\ [][NextStats]_vars

-----------------------------------------------------------------------------
(* compile_with_options called again and again on one source text: the steps
   of its compile_with_details, then the options applied to what it returned *)

InitOptions ==
    /\ source \in OptionSources
    /\ entry = "compile_with_details"
    /\ pc = "parse"
    /\ ast = << >>
    /\ stages = << >>
    /\ js_code = None
    /\ returned = NoResult
    /\ context = NewContext
    /\ last_call = NoCall
    /\ calls = << >>
    /\ ValidatorIdle
    /\ GeneratorIdle
    /\ CallsIdle

\* compile_with_options(source, &options) with any options, once its
\* compile_with_details(source) has returned
CompileWithOptions ==
    /\ returned # NoResult
    /\ \E format_output, add_comments, strict_mode, minify \in BOOLEAN :
            options' = CompilationOptions(format_output, add_comments, strict_mode, minify)
    /\ opt_result' = compile_with_options(returned, source.text, options')
    /\ UNCHANGED <<lexerVars, parse_input, parse_output, gen_stmts, gen_stmt_code, gen_code, stats,
                   contextVars, validateVars, generateVars, compileVars>>

NextOptions ==
    \/ CompileWithOptions
    \/ ParseStage
    \/ ValidateStage
    \/ GenerateStage
    \/ ReturnResult

SpecOptions == InitOptions /\ [][NextOptions]_vars


-----------------------------------------------------------------------------
(* validate_expression applied to one expression in one ValidationContext *)

InitExpression ==
    /\ context \in ValidatedContexts
    /\ last_call = NoCall
    /\ calls = << >>
    /\ ValidatorIdle
    /\ GeneratorIdle
    /\ CompilerIdle
    /\ CallsIdle

\* validate_expression(&expr, line, &context): the context is only read
ValidateExpression(expr, line) ==
    /\ last_call = NoCall
    /\ last_call' = [expr |-> expr, line |-> line, before |-> context,
                     result |-> validate_expression(expr, line, context)]
    /\ UNCHANGED <<context, calls, validateVars, generateVars, compileVars, callVars, lexerVars>>

NextExpression ==
    \E expr \in ValidatedExprs, line \in 1..MaxLine : ValidateExpression(expr, line)

SpecExpression == InitExpression /\ [][NextExpression]_vars

-----------------------------------------------------------------------------
(* compile_with_details and get_compilation_stats applied to one source text *)

InitDetailsAndStats ==
    /\ source \in Sources
    /\ entry = "compile_with_details"
    /\ pc = "parse"
    /\ ast = << >>
    /\ stages = << >>
    /\ js_code = None
    /\ returned = NoResult
    /\ context = NewContext
    /\ last_call = NoCall
    /\ calls = << >>
    /\ ValidatorIdle
    /\ GeneratorIdle
    /\ CallsIdle

NextDetailsAndStats ==
    \/ ParseStage
    \/ ValidateStage
    \/ GenerateStage
    \/ ReturnResult
    \/ GetCompilationStats

SpecDetailsAndStats == InitDetailsAndStats /\ [][NextDetailsAndStats]_vars

-----------------------------------------------------------------------------
(* A Lexer driven through its methods *)

InitLexer ==
    /\ lexer \in { Lexer(tokens) : tokens \in TokenSeqs }
    /\ lexer_call = NoCall
    /\ parse_input = Pair("expression", << >>)
    /\ parse_output = NoResult
    /\ gen_stmts = << >>
    /\ gen_stmt_code = None
    /\ gen_code = None
    /\ options = CompilationOptions(FALSE, FALSE, FALSE, FALSE)
    /\ opt_result = NoResult
    /\ stats = NoResult
    /\ context = NewContext
    /\ last_call = NoCall
    /\ calls = << >>
    /\ ValidatorIdle
    /\ GeneratorIdle
    /\ CompilerIdle

NotLexer == <<contextVars, validateVars, generateVars, compileVars, callVars>>

\* lexer.current()
Current ==
    /\ lexer_call' = [method |-> "current", before |-> lexer, result |-> current(lexer)]
    /\ UNCHANGED <<lexer, NotLexer>>

\* lexer.peek()
Peek ==
    /\ lexer_call' = [method |-> "peek", before |-> lexer, result |-> peek(lexer)]
    /\ UNCHANGED <<lexer, NotLexer>>

\* lexer.advance()
Advance ==
    /\ lexer' = advance(lexer).lexer
    /\ lexer_call' = [method |-> "advance", before |-> lexer, result |-> advance(lexer).result]
    /\ UNCHANGED NotLexer

\* lexer.is_eof()
IsEof ==
    /\ lexer_call' = [method |-> "is_eof", before |-> lexer, result |-> is_eof(lexer)]
    /\ UNCHANGED <<lexer, NotLexer>>

\* lexer.reset()
Reset ==
    /\ lexer' = reset(lexer)
    /\ lexer_call' = [method |-> "reset", before |-> lexer, result |-> None]
    /\ UNCHANGED NotLexer

NextLexer ==
    \/ Current
    \/ Peek
    \/ Advance
    \/ IsEof
    \/ Reset

SpecLexer == InitLexer /\ [][NextLexer]_vars

-----------------------------------------------------------------------------
(* Claims about ValidationContext (SpecContext) *)

IsDuplicate(result) == ~result.ok /\ result.err.kind = "DuplicateVariable"

\* calls i < j name the same variable and no call between them does
ConsecutiveOn(i, j) ==
    /\ i < j
    /\ calls[i].name = calls[j].name
    /\ \A k \in (i + 1)..(j - 1) : calls[k].name # calls[i].name


\* C1: in one ValidationContext, for every name: a (successful) Const declaration
\* followed by a Const declaration of the same name returns DuplicateVariable,
\* followed by a Let declaration it returns Ok, and a (successful) Let
\* declaration followed by a Const declaration returns DuplicateVariable.
C1_RedeclarationRule ==
    \A i, j \in 1..Len(calls) :
        (ConsecutiveOn(i, j) /\ calls[i].result.ok) =>
            /\ (calls[i].decl_type = "Const" /\ calls[j].decl_type = "Const")
                    => IsDuplicate(calls[j].result)
            /\ (calls[i].decl_type = "Const" /\ calls[j].decl_type = "Let")
                    => calls[j].result = Ok
            /\ (calls[i].decl_type = "Let" /\ calls[j].decl_type = "Const")
                    => IsDuplicate(calls[j].result)

\* C1 witness: x declared Const, widened by a Let, and a third Const declaration
\* rejected
C1_Witness ==
    /\ Len(calls) = 3
    /\ \A i \in 1..3 : calls[i].name = X
    /\ calls[1].decl_type = "Const" /\ calls[1].result.ok
    /\ calls[2].decl_type = "Let" /\ calls[2].result.ok
    /\ calls[3].decl_type = "Const" /\ IsDuplicate(calls[3].result)


-----------------------------------------------------------------------------
(* Claims about validate_program (SpecValidate) *)

Failed(result, kind) == result # NoResult /\ ~result.ok /\ result.err.kind = kind

\* A PrintStmt with no argument occurs in the statement / in the block, at any depth
RECURSIVE StmtHasEmptyPrint(_)
RECURSIVE BlockHasEmptyPrint(_)
StmtHasEmptyPrint(stmt) ==
    CASE stmt.type = "Print" -> stmt.expressions = << >>
      [] stmt.type \in {"Const", "Let"} -> FALSE
      [] stmt.type = "If" ->
            \/ BlockHasEmptyPrint(stmt.then_block)
            \/ (stmt.else_block # None /\ BlockHasEmptyPrint(stmt.else_block[1]))
      [] stmt.type = "While" -> BlockHasEmptyPrint(stmt.block)
      [] stmt.type = "For" -> StmtHasEmptyPrint(stmt.init) \/ BlockHasEmptyPrint(stmt.block)
BlockHasEmptyPrint(block) == \E k \in 1..Len(block) : StmtHasEmptyPrint(block[k])

\* The same statement / block with an argument given to every empty PrintStmt
RECURSIVE StmtWithPrintArgs(_)
RECURSIVE BlockWithPrintArgs(_)
StmtWithPrintArgs(stmt) ==
    CASE stmt.type = "Print" ->
            IF stmt.expressions = << >> THEN PrintStmt(<<Number(0)>>) ELSE stmt
      [] stmt.type \in {"Const", "Let"} -> stmt
      [] stmt.type = "If" ->
            If(stmt.cond, BlockWithPrintArgs(stmt.then_block),
               IF stmt.else_block = None THEN None
               ELSE Some(BlockWithPrintArgs(stmt.else_block[1])))
      [] stmt.type = "While" -> While(stmt.cond, BlockWithPrintArgs(stmt.block))
      [] stmt.type = "For" ->
            For(StmtWithPrintArgs(stmt.init), stmt.cond, stmt.update,
                BlockWithPrintArgs(stmt.block))
BlockWithPrintArgs(block) == [k \in 1..Len(block) |-> StmtWithPrintArgs(block[k])]

\* C5 as stated: validate_program fails with EmptyPrintStatement for every program
\* that contains a PrintStmt with no argument, wherever it stands.
C5_AsStated ==
    (vp_result # NoResult /\ BlockHasEmptyPrint(statements))
        => Failed(vp_result, "EmptyPrintStatement")

\* C5 amended: validate_program fails for every program that contains a PrintStmt
\* with no argument, at any top-level index and any nesting; the error is
\* EmptyPrintStatement when the program is otherwise valid, that is, when it
\* validates once every empty PrintStmt is given an argument.
C5_EmptyPrintFails ==
    (vp_result # NoResult /\ BlockHasEmptyPrint(statements)) =>
        /\ ~vp_result.ok
        /\ validate_program(BlockWithPrintArgs(statements)).ok
                => Failed(vp_result, "EmptyPrintStatement")

\* C5 witness: the empty PrintStmt is nested two blocks deep in the second statement
C5_Witness ==
    /\ Len(statements) = 2
    /\ statements[1] = Const(X, N1)
    /\ statements[2] = While(N1, <<If(N1, <<Let(Y, N1)>>, Some(<<PrintStmt(<< >>)>>))>>)
    /\ vp_result = Err(EmptyPrintStatement(2))


\* Every statement of a block, nested ones and For initialisers included, in
\* validation order
RECURSIVE Flatten(_)
Flatten(block) ==
    IF block = << >> THEN << >>
    ELSE LET stmt == Head(block)
             nested ==
                CASE stmt.type = "If" ->
                        Flatten(stmt.then_block)
                            \o (IF stmt.else_block = None THEN << >> ELSE Flatten(stmt.else_block[1]))
                  [] stmt.type = "While" -> Flatten(stmt.block)
                  [] stmt.type = "For" -> Flatten(<<stmt.init>>) \o Flatten(stmt.block)
                  [] OTHER -> << >>
         IN  <<stmt>> \o nested \o Flatten(Tail(block))

\* The control construct has an empty block of its own; the keyword of that block
HasEmptyOwnBlock(stmt) ==
    CASE stmt.type = "If" -> stmt.then_block = << >> \/ stmt.else_block = Some(<< >>)
      [] stmt.type \in {"While", "For"} -> stmt.block = << >>
      [] OTHER -> FALSE

EmptyBlockKeyword(stmt) ==
    CASE stmt.type = "If" -> IF stmt.then_block = << >> THEN "magadheera" ELSE "karthikeya"
      [] stmt.type = "While" -> "pokiri"
      [] stmt.type = "For" -> "eega"

\* Everything validate_statement checks before it looks at the empty block succeeds
ClausesValidate(stmt, line, ctx) ==
    CASE stmt.type = "If" ->
            /\ validate_expression(stmt.cond, line, ctx).ok
            /\ stmt.then_block # << >>
                    => validate_block(stmt.then_block, line, new_scope(ctx)).result.ok
      [] stmt.type = "While" -> validate_expression(stmt.cond, line, ctx).ok
      [] stmt.type = "For" ->
            LET i == validate_statement(stmt.init, line, ctx)
            IN  /\ i.result.ok
                /\ validate_expression(stmt.cond, line, i.context).ok
                /\ validate_expression(stmt.update, line, i.context).ok

\* C6 as stated: validating a control construct whose block is empty fails with
\* EmptyBlock naming the construct ("eega" for every For with an empty body,
\* "magadheera", "karthikeya", "pokiri" likewise).
C6_AsStated ==
    (last_call # NoCall /\ HasEmptyOwnBlock(last_call.stmt)) =>
        last_call.result = Err(EmptyBlock(last_call.line, EmptyBlockKeyword(last_call.stmt)))

\* What C6 amended says of validate_statement(stmt, line, ctx)
EmptyBlockRule(stmt, line, ctx) ==
    HasEmptyOwnBlock(stmt) =>
        LET r == validate_statement(stmt, line, ctx).result
        IN  /\ ~r.ok
            /\ ClausesValidate(stmt, line, ctx)
                    => r = Err(EmptyBlock(line, EmptyBlockKeyword(stmt)))

\* C6 amended: validating a control construct whose block is empty always fails,
\* and fails with EmptyBlock naming the construct when everything validated
\* before the emptiness test succeeds: the init, condition and update of a For
\* ("eega"), the condition of an If with an empty then-block ("magadheera"), the
\* condition and the non-empty then-block of an If with an empty else-block
\* ("karthikeya"), the condition of a While ("pokiri"). It holds of the statement
\* the loop has just validated and of every construct it may meet next, in the
\* scope it has built.
C6_EmptyBlockFails ==
    /\ (last_call # NoCall /\ HasEmptyOwnBlock(last_call.stmt)) =>
            /\ ~last_call.result.ok
            /\ ClausesValidate(last_call.stmt, last_call.line, last_call.before)
                    => last_call.result
                         = Err(EmptyBlock(last_call.line, EmptyBlockKeyword(last_call.stmt)))
    /\ \A stmt \in StmtSet : EmptyBlockRule(stmt, index + 1, context)

\* C6 witness: a For with an empty body, whose clauses validate, was rejected as
\* the second statement
C6_Witness ==
    /\ Len(statements) = 2
    /\ statements[2] = For(Let(X, N1), IdX, IdX, << >>)
    /\ last_call # NoCall
    /\ last_call.stmt = statements[2]
    /\ vp_result = Err(EmptyBlock(2, "eega"))

\* C3: validating the body of an If (then or else), While or For leaves the
\* enclosing context as it was when the block was entered: after an If or a
\* While the context is the one the statement was given, after a For it is the
\* one its init left. It holds of the statement the loop has just validated and
\* of every construct it may meet next, in the scope it has built.
C3_BlockLeavesScope ==
    /\ last_call # NoCall =>
            /\ last_call.stmt.type \in {"If", "While"} => context = last_call.before
            /\ last_call.stmt.type = "For" =>
                    context = validate_statement(last_call.stmt.init, last_call.line,
                                                 last_call.before).context
    /\ \A stmt \in StmtSet :
            LET r == validate_statement(stmt, index + 1, context)
            IN  /\ stmt.type \in {"If", "While"} => r.context = context
                /\ stmt.type = "For" =>
                        r.context = validate_statement(stmt.init, index + 1, context).context

\* C3 witness: validate_program has stepped over a While whose body widens the
\* enclosing const x to a let, and x is still the const of statement 1
C3_Witness ==
    /\ fn = "validate_program"
    /\ index = 2
    /\ last_call # NoCall
    /\ last_call.result = Ok
    /\ statements[1] = Const(X, N1)
    /\ statements[2] = While(BinaryOp(IdX, Lt, N1),
                             <<PrintStmt(<<IdX>>), Let(X, BinaryOp(IdX, Plus, N1))>>)
    /\ context = [declared_vars |-> {X}, var_declarations |-> insert(<< >>, X, 1),
                  var_types |-> insert(<< >>, X, "Const")]


\* The names an expression refers to
RECURSIVE Refs(_)
Refs(expr) ==
    CASE expr.type = "Identifier" -> {expr.name}
      [] expr.type = "BinaryOp" -> Refs(expr.left) \cup Refs(expr.right)
      [] OTHER -> {}

\* The operator spellings an expression uses
RECURSIVE Operators(_)
Operators(expr) ==
    CASE expr.type = "BinaryOp" -> {expr.op} \cup Operators(expr.left) \cup Operators(expr.right)
      [] OTHER -> {}

\* The expressions a statement holds itself (not those of nested statements)
OwnExpressions(stmt) ==
    CASE stmt.type = "Print" -> {stmt.expressions[k] : k \in 1..Len(stmt.expressions)}
      [] stmt.type \in {"Const", "Let"} -> {stmt.expr}
      [] stmt.type \in {"If", "While"} -> {stmt.cond}
      [] stmt.type = "For" -> {stmt.cond, stmt.update}

\* Lexical scoping, stated without the validator: the names in scope after a
\* statement of a block (a declaration adds its name; so does the init of a For)
RECURSIVE ScopeAfter(_, _)
ScopeAfter(stmt, scope) ==
    CASE stmt.type \in {"Const", "Let"} ->
            IF stmt.name = << >> THEN scope ELSE scope \cup {stmt.name}
      [] stmt.type = "For" -> ScopeAfter(stmt.init, scope)
      [] OTHER -> scope

\* The statement / the block refers to a name that is not in scope at the
\* reference: not declared earlier in the block, nor in an enclosing block before
\* the block was entered. The name a declaration introduces is in scope in its
\* own initialiser.
RECURSIVE StmtHasUndefinedRef(_, _)
RECURSIVE BlockHasUndefinedRef(_, _)
StmtHasUndefinedRef(stmt, scope) ==
    CASE stmt.type = "Print" -> \E e \in OwnExpressions(stmt) : ~(Refs(e) \subseteq scope)
      [] stmt.type \in {"Const", "Let"} -> ~(Refs(stmt.expr) \subseteq ScopeAfter(stmt, scope))
      [] stmt.type = "If" ->
            \/ ~(Refs(stmt.cond) \subseteq scope)
            \/ BlockHasUndefinedRef(stmt.then_block, scope)
            \/ (stmt.else_block # None /\ BlockHasUndefinedRef(stmt.else_block[1], scope))
      [] stmt.type = "While" ->
            \/ ~(Refs(stmt.cond) \subseteq scope)
            \/ BlockHasUndefinedRef(stmt.block, scope)
      [] stmt.type = "For" ->
            LET inner == ScopeAfter(stmt.init, scope)
            IN  \/ StmtHasUndefinedRef(stmt.init, scope)
                \/ ~(Refs(stmt.cond) \cup Refs(stmt.update) \subseteq inner)
                \/ BlockHasUndefinedRef(stmt.block, inner)
BlockHasUndefinedRef(block, scope) ==
    /\ block # << >>
    /\ \/ StmtHasUndefinedRef(Head(block), scope)
       \/ BlockHasUndefinedRef(Tail(block), ScopeAfter(Head(block), scope))

\* The program has no defect other than references to names that are not in
\* scope: no empty PrintStmt, block or name, no unknown operator, no name
\* declared twice
NoOtherDefect(stmts) ==
    LET all == Flatten(stmts)
    IN  /\ \A k \in 1..Len(all) :
                /\ ~(all[k].type = "Print" /\ all[k].expressions = << >>)
                /\ ~HasEmptyOwnBlock(all[k])
                /\ all[k].type \in {"Const", "Let"} => all[k].name # << >>
                /\ \A e \in OwnExpressions(all[k]) : Operators(e) \subseteq ValidOperators
        /\ \A j, k \in 1..Len(all) :
                (j # k /\ all[j].type \in {"Const", "Let"} /\ all[k].type \in {"Const", "Let"})
                    => all[j].name # all[k].name

\* C2 as stated: validation fails with UndefinedVariable for every reference to a
\* name that was not declared earlier in the current scope or in an enclosing
\* scope before the block was entered.
C2_AsStated ==
    (vp_result # NoResult /\ BlockHasUndefinedRef(statements, {}))
        => Failed(vp_result, "UndefinedVariable")

\* C2 amended: validation fails for every program that holds a reference to a
\* name that was not declared earlier in the current scope or in an enclosing
\* scope before the block was entered (in particular a reference in one nested
\* block to a name declared only in a sibling block, or after a block to a name
\* declared only inside it); the error is UndefinedVariable when the program has
\* no defect of another kind.
C2_UndefinedReferenceFails ==
    (vp_result # NoResult /\ BlockHasUndefinedRef(statements, {})) =>
        /\ ~vp_result.ok
        /\ NoOtherDefect(statements) => Failed(vp_result, "UndefinedVariable")

\* C2 witness: the else-block refers to a name declared only in the then-block
C2_Witness ==
    /\ statements = <<Const(X, N1), If(N1, <<Let(Y, N1)>>, Some(<<PrintStmt(<<IdY>>)>>))>>
    /\ vp_result = Err(UndefinedVariable(Y, 2))

\* C2 witness of the other case: a reference after a block to a name declared
\* only inside it
C2_WitnessAfterBlock ==
    /\ statements = <<While(N1, <<Let(Y, N1)>>), PrintStmt(<<IdY>>)>>
    /\ vp_result = Err(UndefinedVariable(Y, 2))


\* The construct fails wherever it stands: an empty PrintStmt, an empty block, an
\* empty name, an unknown operator
Defective(stmt) ==
    \/ (stmt.type = "Print" /\ stmt.expressions = << >>)
    \/ HasEmptyOwnBlock(stmt)
    \/ (stmt.type \in {"Const", "Let"} /\ stmt.name = << >>)
    \/ \E e \in OwnExpressions(stmt) : ~(Operators(e) \subseteq ValidOperators)

\* The number of such constructs in a block, at any depth
DefectCount(block) ==
    LET all == Flatten(block)
    IN  Cardinality({k \in 1..Len(all) : Defective(all[k])})

\* The top-level statements among the first n that hold such a construct
DefectiveTop(stmts, n) == {k \in 1..n : DefectCount(<<stmts[k]>>) > 0}

\* The error list a validate_program_detailed result carries
ErrorsOf(result) == IF result.ok THEN << >> ELSE result.errs

-----------------------------------------------------------------------------
(* Claims about generate_expression (SpecGenerate) *)

\* how often the character ch occurs in text
RECURSIVE CountChar(_, _)
CountChar(text, ch) ==
    IF text = << >> THEN 0
    ELSE (IF Head(text) = ch THEN 1 ELSE 0) + CountChar(Tail(text), ch)

\* the BinaryOp nodes of an expression tree
RECURSIVE BinaryOpNodes(_)
BinaryOpNodes(e) ==
    IF e.type = "BinaryOp" THEN 1 + BinaryOpNodes(e.left) + BinaryOpNodes(e.right) ELSE 0

\* the occurrences of ch that the tree itself carries, in its identifiers,
\* string literals and operator strings
RECURSIVE OwnChars(_, _)
OwnChars(e, ch) ==
    CASE e.type = "Number" -> 0
      [] e.type = "Identifier" -> CountChar(e.name, ch)
      [] e.type = "String" -> CountChar(e.s, ch)
      [] e.type = "BinaryOp" ->
            OwnChars(e.left, ch) + CountChar(e.op, ch) + OwnChars(e.right, ch)

\* the value a decimal text denotes
RECURSIVE DecimalValue(_)
DecimalValue(text) ==
    IF text = << >> THEN 0
    ELSE 10 * DecimalValue(SubSeq(text, 1, Len(text) - 1))
            + (CHOOSE d \in 0..9 : Digits[d + 1] = text[Len(text)])

IsDecimal(text) ==
    /\ text # << >>
    /\ \A i \in 1..Len(text) : \E d \in 0..9 : Digits[d + 1] = text[i]
    /\ (Len(text) > 1 => text[1] # "0")

\* text is the rendering of e: a literal is its own text, a BinaryOp is
\* "(" left " " operator " " right ")" for some split of the text into the
\* renderings of its two operands around the verbatim operator
RECURSIVE Renders(_, _)
Renders(e, text) ==
    CASE e.type = "Number" ->
            IF e.n < 0
            THEN /\ Len(text) > 1
                 /\ text[1] = "-"
                 /\ IsDecimal(Tail(text))
                 /\ DecimalValue(Tail(text)) = 0 - e.n
            ELSE IsDecimal(text) /\ DecimalValue(text) = e.n
      [] e.type = "Identifier" -> text = e.name
      [] e.type = "String" ->
            /\ Len(text) = Len(e.s) + 2
            /\ text[1] = "\"" /\ text[Len(text)] = "\""
            /\ SubSeq(text, 2, Len(text) - 1) = e.s
      [] e.type = "BinaryOp" ->
            /\ Len(text) >= Len(e.op) + 4
            /\ text[1] = "(" /\ text[Len(text)] = ")"
            /\ \E i \in 2..(Len(text) - 1) :
                    LET j == i + Len(e.op) + 1
                    IN  /\ j < Len(text)
                        /\ text[i] = " " /\ text[j] = " "
                        /\ SubSeq(text, i + 1, j - 1) = e.op
                        /\ Renders(e.left, SubSeq(text, 2, i - 1))
                        /\ Renders(e.right, SubSeq(text, j + 1, Len(text) - 1))

NestedExample == BinaryOp(BinaryOp(Number(1), Plus, Number(2)), Times, Number(3))
NestedExampleText == <<"(", "(", "1", " ", "+", " ", "2", ")", " ", "*", " ", "3", ")">>

\* C10: for every expression tree generate_expression renders each BinaryOp as
\* "(" left " " operator " " right ")" with the operator verbatim, at every
\* nesting level, so the output holds one opening and one closing parenthesis
\* per BinaryOp node beyond the parenthesis characters the tree's own literals
\* and operators carry; BinaryOp(BinaryOp(1,"+",2),"*",3) gives ((1 + 2) * 3).
C10_FullyParenthesized ==
    gen_output # None =>
        LET text == gen_output[1]
        IN  /\ Renders(gen_input, text)
            /\ CountChar(text, "(") = BinaryOpNodes(gen_input) + OwnChars(gen_input, "(")
            /\ CountChar(text, ")") = BinaryOpNodes(gen_input) + OwnChars(gen_input, ")")
            /\ (gen_input = NestedExample => text = NestedExampleText)

\* C10 witness: the nested example has been rendered
C10_Witness ==
    /\ gen_input = NestedExample
    /\ gen_output = Some(NestedExampleText)

\* a right-nested tree with a negative number and a string has been rendered
C10_WitnessRightNested ==
    /\ gen_input = BinaryOp(Number(0 - 120), Times, BinaryOp(IdX, Plus, StringLit(<<"(", "a">>)))
    /\ gen_output # None
    /\ CountChar(gen_output[1], "(") = 3

-----------------------------------------------------------------------------
(* Claims about compile and compile_with_details (SpecCompile) *)

StageOrder == <<"parse", "validate", "generate">>

IsPrefix(a, b) == Len(a) <= Len(b) /\ SubSeq(b, 1, Len(a)) = a

StartsWith(text, prefix) == Len(text) >= Len(prefix) /\ SubSeq(text, 1, Len(prefix)) = prefix

\* the source does not parse / parses to a program that does not validate
ParseFails == ~parse_program(source).ok
ValidationFails == parse_program(source).ok /\ ~validate_program(parse_program(source).value).ok

Returned == returned # NoResult
ReturnedErr == returned # NoResult /\ ~returned.ok

\* pushpa x = 1; pokiri (x < 1) { bahubali(x); pushpa x = x + 1; }
RedeclaredInLoop ==
    <<Let(X, N1),
      While(BinaryOp(IdX, Lt, N1), <<PrintStmt(<<IdX>>), Let(X, BinaryOp(IdX, Plus, N1))>>)>>

\* C4, as stated: a program that binds a name with let at top level and binds
\* it again with let inside the body of a following while loop compiles:
\* compile returns Ok with the generated while loop.
C4_AsStated ==
    (source = Matched(ProgramPair(RedeclaredInLoop)) /\ entry = "compile" /\ Returned)
        => returned = OkV(generate_program(RedeclaredInLoop))

\* what compile returns for that program: the validation error of the second let
C4_Observed ==
    /\ source = Matched(ProgramPair(RedeclaredInLoop))
    /\ entry = "compile"
    /\ returned = Err(ValidationError(ValidationFailed \o Display(DuplicateVariable(X, 1)),
                                      None, None, None))

\* C7: compile and compile_with_details run the stages in the order parse,
\* validate, generate and stop at the first failing stage: when parsing fails
\* neither validation nor generation runs, when validation fails generation
\* does not run, and in both cases the call returns an error and no generated
\* text exists.
C7_StagesStopAtFirstFailure ==
    /\ IsPrefix(stages, StageOrder)
    /\ ParseFails => Len(stages) <= 1
    /\ ValidationFails => Len(stages) <= 2
    /\ (ParseFails \/ ValidationFails) =>
            /\ js_code = None
            /\ Returned => ~returned.ok
            /\ pc = "done" => ReturnedErr
    /\ ReturnedErr => (js_code = None /\ pc = "done" /\ Len(stages) \in {1, 2})
    /\ js_code # None => (stages = StageOrder /\ ~ParseFails /\ ~ValidationFails)
    /\ (Returned /\ returned.ok) => (stages = StageOrder /\ js_code # None)

\* C7 witness: validation failed after a successful parse, the call returned
\* an error, generation did not run
C7_Witness ==
    /\ ValidationFails
    /\ stages = <<"parse", "validate">>
    /\ ReturnedErr
    /\ js_code = None

\* parsing failed in the lowering of a matched source: only the parse stage ran
C7_WitnessParseFails ==
    /\ source.matched
    /\ ParseFails
    /\ stages = <<"parse">>
    /\ ReturnedErr
    /\ js_code = None

FailedToParseText ==
    <<"F", "a", "i", "l", "e", "d", " ", "t", "o", " ", "p", "a", "r", "s", "e", " ",
      "T", "F", "I", " ", "c", "o", "d", "e">>
ValidationFailedText ==
    <<"V", "a", "l", "i", "d", "a", "t", "i", "o", "n", " ", "f", "a", "i", "l", "e", "d">>

IsParseFailure(e) == e.variant = "General" /\ StartsWith(e.message, FailedToParseText)
IsValidationFailure(e) ==
    e.variant = "ValidationError" /\ StartsWith(e.message, ValidationFailedText)

\* C8: the error compile_with_details returns names the failing stage: General
\* with a message beginning "Failed to parse TFI code" exactly when parsing
\* failed, ValidationError with a message beginning "Validation failed" exactly
\* when parsing succeeded and validation failed; GenerationError and ParseError
\* are never returned. (compile hands the same error on.)
C8_ErrorNamesStage ==
    Returned =>
        /\ ParseFails <=> (~returned.ok /\ IsParseFailure(returned.err))
        /\ ValidationFails <=> (~returned.ok /\ IsValidationFailure(returned.err))
        /\ ~returned.ok => returned.err.variant \in {"General", "ValidationError"}
        /\ ~returned.ok => (IsParseFailure(returned.err) \/ IsValidationFailure(returned.err))

\* C8 witness: compile_with_details returned the General error of a source
\* whose lowering failed
C8_Witness ==
    /\ entry = "compile_with_details"
    /\ source.matched
    /\ ParseFails
    /\ ReturnedErr
    /\ IsParseFailure(returned.err)

\* compile_with_details returned the ValidationError of a parsed program
C8_WitnessValidation ==
    /\ entry = "compile_with_details"
    /\ ValidationFails
    /\ ReturnedErr
    /\ IsValidationFailure(returned.err)

-----------------------------------------------------------------------------
(* Claims about parse_expression (SpecParse) *)

\* The tree a chain of terms and operators stands for, read from its right
\* end: the last term is the right operand of the last operator, everything
\* before them is the left operand; a parenthesized term stands for the tree
\* of its own chain
RECURSIVE ChainTree(_)
ChainTree(chain) ==
    LET TermTree(term) ==
            LET inner == term.inner[1]
            IN  CASE inner.rule = "number" -> Number(DecimalValue(inner.text))
                  [] inner.rule = "ident" -> Identifier(inner.text)
                  [] inner.rule = "string" -> StringLit(SubSeq(inner.text, 2, Len(inner.text) - 1))
                  [] inner.rule = "expression" -> ChainTree(inner.inner)
    IN  IF Len(chain) = 1 THEN TermTree(chain[1])
        ELSE BinaryOp(ChainTree(SubSeq(chain, 1, Len(chain) - 2)),
                      chain[Len(chain) - 1].text,
                      TermTree(chain[Len(chain)]))

\* the operators of the left spine of a tree, outermost first, down n levels
RECURSIVE SpineOperators(_, _)
SpineOperators(tree, n) ==
    IF n = 0 THEN << >> ELSE <<tree.op>> \o SpineOperators(tree.left, n - 1)

\* a + b * c
APlusBTimesC == Pair("expression", <<TermA, OpPlus, TermB, OpTimes, TermC>>)
\* a * (b + c)
ATimesParenBPlusC == Pair("expression", <<TermA, OpTimes, ParenBPlusC>>)

\* C11: lowering an expression of terms t0..tn joined by operators o1..on
\* yields the left-nested tree BinaryOp(..BinaryOp(t0,o1,t1)..,on,tn) whatever
\* the operators are (a + b * c becomes BinaryOp(BinaryOp(a,+,b),*,c)); a
\* parenthesized term is lowered as its own sub-expression and is one operand
\* of the chain.
C11_LeftNestedChain ==
    parse_output # NoResult =>
        LET chain == parse_input.inner
            n == (Len(chain) - 1) \div 2
        IN  /\ parse_output.ok
            /\ parse_output.value = ChainTree(chain)
            /\ SpineOperators(parse_output.value, n)
                    = [i \in 1..n |-> chain[2 * (n - i) + 2].text]
            /\ n > 0 => parse_output.value.right = ChainTree(<<chain[Len(chain)]>>)
            /\ parse_input = APlusBTimesC =>
                    parse_output.value
                        = BinaryOp(BinaryOp(Identifier(A), Plus, Identifier(B)), <<"*">>,
                                   Identifier(C))
            /\ parse_input = ATimesParenBPlusC =>
                    parse_output.value
                        = BinaryOp(Identifier(A), <<"*">>,
                                   BinaryOp(Identifier(B), Plus, Identifier(C)))

\* C11 witness: a + b * c has been lowered to BinaryOp(BinaryOp(a,+,b),*,c)
C11_Witness ==
    /\ parse_input = APlusBTimesC
    /\ parse_output
        = OkV(BinaryOp(BinaryOp(Identifier(A), Plus, Identifier(B)), <<"*">>, Identifier(C)))

\* a chain whose middle term is parenthesized has been lowered
C11_WitnessParenthesized ==
    /\ parse_input = Pair("expression", <<TermA, OpPlus, ParenBPlusC, OpTimes, TermC>>)
    /\ parse_output
        = OkV(BinaryOp(BinaryOp(Identifier(A), Plus,
                                BinaryOp(Identifier(B), Plus, Identifier(C))),
                       <<"*">>, Identifier(C)))

-----------------------------------------------------------------------------
(* Claims about generate_statement and generate_program (SpecGenerateProgram) *)

\* the pieces of text between the occurrences of ch
RECURSIVE SplitAt(_, _)
SplitAt(text, ch) ==
    IF \A i \in 1..Len(text) : text[i] # ch THEN <<text>>
    ELSE LET i == CHOOSE k \in 1..Len(text) :
                        text[k] = ch /\ \A m \in 1..(k - 1) : text[m] # ch
         IN  <<SubSeq(text, 1, i - 1)>> \o SplitAt(SubSeq(text, i + 1, Len(text)), ch)

EndsWith(text, suffix) ==
    Len(text) >= Len(suffix) /\ SubSeq(text, Len(text) - Len(suffix) + 1, Len(text)) = suffix

\* The lines of a generated text, grouped into the statements that stand at
\* brace depth 0: a line ending in "{" opens a block, a line beginning with
\* "}" closes one, a statement is over when the depth is back at 0
RECURSIVE ChunksFrom(_, _, _)
ChunksFrom(rest, depth, chunk) ==
    IF rest = << >> THEN (IF chunk = << >> THEN << >> ELSE <<chunk>>)
    ELSE LET line == Head(rest)
             after == depth - (IF StartsWith(line, <<"}">>) THEN 1 ELSE 0)
                            + (IF EndsWith(line, <<"{">>) THEN 1 ELSE 0)
         IN  IF after = 0
             THEN <<Append(chunk, line)>> \o ChunksFrom(Tail(rest), 0, << >>)
             ELSE ChunksFrom(Tail(rest), after, Append(chunk, line))

Chunks(text) == IF text = << >> THEN << >> ELSE ChunksFrom(SplitAt(text, "\n"), 0, << >>)

\* the kind of statement a chunk of generated lines opens with
ChunkKind(chunk) ==
    CASE StartsWith(chunk[1], ConsoleLogOpen) -> "Print"
      [] StartsWith(chunk[1], ConstSpace) -> "Const"
      [] StartsWith(chunk[1], LetSpace) -> "Let"
      [] StartsWith(chunk[1], IfOpen) -> "If"
      [] StartsWith(chunk[1], WhileOpen) -> "While"
      [] StartsWith(chunk[1], ForOpen) -> "For"
      [] OTHER -> "none"

\* text is the binding `keyword name = <expr>` of a declaration, without terminator
IsBinding(stmt, text) ==
    LET keyword == IF stmt.type = "Const" THEN <<"c", "o", "n", "s", "t">>
                   ELSE <<"l", "e", "t">>
        head == keyword \o <<" ">> \o stmt.name \o <<" ", "=", " ">>
    IN  /\ StartsWith(text, head)
        /\ Renders(stmt.expr, SubSeq(text, Len(head) + 1, Len(text)))

IsDeclaration(stmt) == stmt.type \in {"Const", "Let"}

\* the top-level declarations of a program, in order
RECURSIVE Declarations(_)
Declarations(stmts) ==
    IF stmts = << >> THEN << >>
    ELSE (IF IsDeclaration(Head(stmts)) THEN <<Head(stmts)>> ELSE << >>)
            \o Declarations(Tail(stmts))

\* the one-line chunks that open with const or let, in order
RECURSIVE BindingLines(_)
BindingLines(chunks) ==
    IF chunks = << >> THEN << >>
    ELSE (IF ChunkKind(Head(chunks)) \in {"Const", "Let"} THEN <<Head(chunks)[1]>> ELSE << >>)
            \o BindingLines(Tail(chunks))

\* C12: for every program generate_program emits the top-level statements in
\* input order joined by newlines, and the output holds exactly one
\* `const name = ...;` or `let name = ...;` binding statement per top-level
\* Const / Let, in the same relative order as in the input.
C12_StatementsInOrder ==
    gen_code # None =>
        LET chunks == Chunks(gen_code[1])
            bindings == BindingLines(chunks)
            declarations == Declarations(gen_stmts)
        IN  /\ Len(chunks) = Len(gen_stmts)
            /\ \A i \in 1..Len(chunks) : ChunkKind(chunks[i]) = gen_stmts[i].type
            /\ Len(bindings) = Len(declarations)
            /\ \A i \in 1..Len(bindings) :
                    /\ EndsWith(bindings[i], <<";">>)
                    /\ IsBinding(declarations[i],
                                 SubSeq(bindings[i], 1, Len(bindings[i]) - 1))

\* C12 witness: a program of a block statement holding two nested declarations
\* followed by a top-level const has been generated; only the top-level
\* declaration stands as a binding statement of the program
C12_Witness ==
    /\ gen_stmts = <<If(BinaryOp(IdX, Lt, N1), <<Let(Y, N1), PrintStmt(<<IdY>>)>>,
                        Some(<<Const(Y, N1)>>)),
                     Const(X, Number(10))>>
    /\ gen_code # None
    /\ Len(Chunks(gen_code[1])) = 2
    /\ BindingLines(Chunks(gen_code[1]))
            = << <<"c", "o", "n", "s", "t", " ", "x", " ", "=", " ", "1", "0", ";">> >>

\* two top-level declarations keep their order
C12_WitnessTwoDeclarations ==
    /\ gen_stmts = <<Let(Y, StringLit(<<";">>)), Const(X, Number(10))>>
    /\ gen_code # None
    /\ Len(BindingLines(Chunks(gen_code[1]))) = 2

\* text is what stands in the first clause of the header for the init statement
IsInitClause(init, text) ==
    IF IsDeclaration(init) THEN IsBinding(init, text)
    ELSE LET code == generate_statement(init)
         IN  IF EndsWith(code, <<";">>) THEN code = text \o <<";">> ELSE code = text

\* header is `for (<init>; <cond>; <update>) {`
IsForHeader(stmt, header) ==
    /\ StartsWith(header, ForOpen)
    /\ EndsWith(header, <<")", " ", "{">>)
    /\ \E i, j \in (Len(ForOpen) + 1)..(Len(header) - 1) :
            /\ i + 1 < j
            /\ SubSeq(header, i, i + 1) = <<";", " ">>
            /\ SubSeq(header, j, j + 1) = <<";", " ">>
            /\ IsInitClause(stmt.init, SubSeq(header, Len(ForOpen) + 1, i - 1))
            /\ Renders(stmt.cond, SubSeq(header, i + 2, j - 1))
            /\ Renders(stmt.update, SubSeq(header, j + 2, Len(header) - 3))

\* C13: for every For statement generate_statement emits the header
\* `for (<init>; <cond>; <update>) {`, where <init> is the text of the init
\* statement without its own terminating ';', then the body statements one
\* per line and a closing `}`; for an init that is a declaration the header
\* holds exactly two ';' clause separators (beyond the ';' characters that the
\* expressions' own string literals carry).
C13_ForHeader ==
    (gen_stmt_code # None /\ gen_stmts[1].type = "For") =>
        LET stmt == gen_stmts[1]
            out_lines == SplitAt(gen_stmt_code[1], "\n")
            header == out_lines[1]
            body == SubSeq(out_lines, 2, Len(out_lines) - 1)
            body_chunks == ChunksFrom(body, 0, << >>)
        IN  /\ Len(out_lines) >= 3
            /\ IsForHeader(stmt, header)
            /\ out_lines[Len(out_lines)] = <<"}">>
            /\ IF stmt.block = << >> THEN body = << << >> >>
               ELSE /\ Len(body_chunks) = Len(stmt.block)
                    /\ \A i \in 1..Len(body_chunks) :
                            ChunkKind(body_chunks[i]) = stmt.block[i].type
            /\ IsDeclaration(stmt.init) =>
                    CountChar(header, ";")
                        = 2 + OwnChars(stmt.init.expr, ";") + OwnChars(stmt.cond, ";")
                            + OwnChars(stmt.update, ";")

\* C13 witness: for (let x = 0; (x < 5); (x + 1)) { console.log(x); }
C13_Witness ==
    /\ gen_stmts # << >>
    /\ gen_stmts[1] = For(Let(X, Number(0)), BinaryOp(IdX, Lt, Number(5)),
                          BinaryOp(IdX, Plus, N1), <<PrintStmt(<<IdX>>)>>)
    /\ gen_stmt_code # None
    /\ SplitAt(gen_stmt_code[1], "\n")[1]
        = <<"f", "o", "r", " ", "(", "l", "e", "t", " ", "x", " ", "=", " ", "0", ";", " ",
            "(", "x", " ", "<", " ", "5", ")", ";", " ", "(", "x", " ", "+", " ", "1", ")",
            ")", " ", "{">>

\* the init whose string initialiser is ";" keeps that character
C13_WitnessStringInit ==
    /\ gen_stmts # << >>
    /\ gen_stmts[1] = For(Const(Y, StringLit(<<";">>)), IdY, IdY,
                          <<Let(X, N1), PrintStmt(<<IdX>>)>>)
    /\ gen_stmt_code # None
    /\ CountChar(SplitAt(gen_stmt_code[1], "\n")[1], ";") = 3

-----------------------------------------------------------------------------
(* Claims about the warnings of compile_with_details (SpecCompile) *)

\* the statement earns a warning: a print of more than five arguments, a
\* while or for of more than ten body statements
IsOversized(stmt) ==
    \/ stmt.type = "Print" /\ Len(stmt.expressions) > 5
    \/ stmt.type \in {"While", "For"} /\ Len(stmt.block) > 10

RECURSIVE CountOversized(_)
CountOversized(stmts) ==
    IF stmts = << >> THEN 0
    ELSE (IF IsOversized(Head(stmts)) THEN 1 ELSE 0) + CountOversized(Tail(stmts))

DetailsReturnedOk == entry = "compile_with_details" /\ returned # NoResult /\ returned.ok

\* C14, as stated: after a successful compile_with_details the warnings list
\* holds exactly one warning for each Print statement of the AST that has more
\* than 5 arguments and one for each While or For of the AST whose body has
\* more than 10 statements (none at exactly 5 arguments or 10 statements, none
\* for any other construct), and warnings never turn the result into an error.
C14_AsStated ==
    /\ DetailsReturnedOk => Len(returned.value.warnings) = CountOversized(Flatten(ast))
    /\ (pc = "done" /\ ~ParseFails /\ ~ValidationFails) => (returned # NoResult /\ returned.ok)

\* What the code does for the statements of the program's top level: one
\* warning per oversized top-level statement, in order, naming its ordinal
C14_TopLevelOnly ==
    /\ DetailsReturnedOk => Len(returned.value.warnings) = CountOversized(ast)
    /\ (pc = "done" /\ ~ParseFails /\ ~ValidationFails) => (returned # NoResult /\ returned.ok)

\* the long print inside a loop body has been compiled without a warning
C14_NestedUnwarned ==
    /\ DetailsReturnedOk
    /\ ast = <<While(N1, <<LongPrint>>)>>
    /\ returned.value.warnings = << >>

\* a long print followed by a long loop has been compiled with two warnings
C14_TwoWarnings ==
    /\ DetailsReturnedOk
    /\ ast = <<LongPrint, While(N1, LongBlock)>>
    /\ Len(returned.value.warnings) = 2

-----------------------------------------------------------------------------
(* Claims about get_compilation_stats (SpecStats) *)

\* the statements of one kind among stmts
RECURSIVE CountKind(_, _)
CountKind(stmts, kind) ==
    IF stmts = << >> THEN 0
    ELSE (IF Head(stmts).type = kind THEN 1 ELSE 0) + CountKind(Tail(stmts), kind)

\* the statements of a block and of the blocks nested in them at any depth:
\* then-blocks, else-blocks, while bodies and for bodies, not the init of a For
RECURSIVE FlattenBlocks(_)
FlattenBlocks(block) ==
    IF block = << >> THEN << >>
    ELSE LET stmt == Head(block)
             nested ==
                CASE stmt.type = "If" ->
                        FlattenBlocks(stmt.then_block)
                            \o (IF stmt.else_block = None THEN << >>
                                ELSE FlattenBlocks(stmt.else_block[1]))
                  [] stmt.type \in {"While", "For"} -> FlattenBlocks(stmt.block)
                  [] OTHER -> << >>
         IN  <<stmt>> \o nested \o FlattenBlocks(Tail(block))

\* the counters are those of the statements in nodes
CountsOf(counted, nodes) ==
    /\ counted.print_statements = CountKind(nodes, "Print")
    /\ counted.const_declarations = CountKind(nodes, "Const")
    /\ counted.let_declarations = CountKind(nodes, "Let")
    /\ counted.if_statements = CountKind(nodes, "If")
    /\ counted.while_loops = CountKind(nodes, "While")
    /\ counted.for_loops = CountKind(nodes, "For")

StatsReturnedOk == stats # NoResult /\ stats.ok

\* C15, as stated: get_compilation_stats counts every Statement node of the
\* AST exactly once in the counter of its kind, by a full recursive traversal:
\* statements nested at any depth in then-blocks, else-blocks, while bodies
\* and for bodies are counted, and so is the init statement of every For.
C15_AsStated ==
    StatsReturnedOk => CountsOf(stats.value, Flatten(parse_program(source).value))

\* What the code counts: the statements of the top level and of the blocks,
\* at any depth, without the init statements; total_statements is the length
\* of the top level
C15_BlocksOnly ==
    StatsReturnedOk =>
        /\ CountsOf(stats.value, FlattenBlocks(parse_program(source).value))
        /\ stats.value.total_statements = Len(parse_program(source).value)

\* for (let x = 1; (x < 1); (x + 1)) { print(x) } counted: one for, one print, no let
C15_InitUncounted ==
    /\ StatsReturnedOk
    /\ parse_program(source).value
        = <<For(Let(X, N1), BinaryOp(IdX, Lt, N1), BinaryOp(IdX, Plus, N1), <<PrintStmt(<<IdX>>)>>)>>
    /\ stats.value.for_loops = 1
    /\ stats.value.print_statements = 1
    /\ stats.value.let_declarations = 0

\* C16: get_compilation_stats only parses: it returns statistics for every
\* source that parses, also for programs that validate_program rejects
\* (undeclared variable, duplicate declaration, empty block), and it fails
\* only when parsing fails, with the parser's error.
C16_OnlyParses ==
    stats # NoResult =>
        /\ stats.ok <=> ~ParseFails
        /\ ~stats.ok => stats.err = parse_program(source).err

\* C16 witness: statistics have been returned for a program validation rejects
C16_Witness ==
    /\ StatsReturnedOk
    /\ ValidationFails

C16_WitnessUndefined ==
    /\ StatsReturnedOk
    /\ ValidationFails
    /\ validate_program(parse_program(source).value).err.kind = "UndefinedVariable"

C16_WitnessDuplicate ==
    /\ StatsReturnedOk
    /\ ValidationFails
    /\ validate_program(parse_program(source).value).err.kind = "DuplicateVariable"

C16_WitnessEmptyBlock ==
    /\ StatsReturnedOk
    /\ ValidationFails
    /\ validate_program(parse_program(source).value).err.kind = "EmptyBlock"

C16_WitnessParseFails ==
    /\ stats # NoResult
    /\ ~stats.ok
    /\ ParseFails

-----------------------------------------------------------------------------
(* Claims about programs of no statement (SpecCompile) *)

NoValidStatements ==
    [variant |-> "CustomError", message |-> "No valid statements found. Check your syntax."]

\* the grammar matched the source and its program pair holds no statement pair
MatchedNoStatement ==
    /\ source.matched
    /\ \A i \in 1..Len(source.program.inner) : source.program.inner[i].rule # "statement"

\* C17: parse_program returns an error for empty input (whether the grammar
\* rejects it or matches it as a program of no statement) and the error
\* "No valid statements found" for every input from which zero statements are
\* lowered even though the grammar matched; hence every program it returns
\* has at least one top-level statement and every CompilationResult has
\* statement_count >= 1.
C17_NoEmptyProgram ==
    /\ (stages # << >> /\ MatchedNoStatement) =>
            /\ returned = Err(General(FailedToParse \o Display(NoValidStatements),
                                      Some("The parser has already printed detailed error information above")))
            /\ ast = << >>
            /\ pc = "done"
    /\ (stages # << >> /\ ~source.matched) => (ReturnedErr /\ pc = "done")
    /\ pc \in {"validate", "generate", "result"} => Len(ast) >= 1
    /\ js_code # None => Len(ast) >= 1
    /\ (Returned /\ returned.ok) => Len(ast) >= 1
    /\ DetailsReturnedOk =>
            /\ returned.value.statement_count >= 1
            /\ returned.value.statement_count = Len(ast)

\* C17 witness: the grammar matched a program of no statement and the compile
\* has returned the parser's "No valid statements found" error
C17_Witness ==
    /\ MatchedNoStatement
    /\ ReturnedErr
    /\ returned.err.message = FailedToParse \o Display(NoValidStatements)

\* a CompilationResult of a program of two statements has been returned
C17_WitnessResult ==
    /\ DetailsReturnedOk
    /\ returned.value.statement_count = 2

-----------------------------------------------------------------------------
(* Claims about compile_with_options (SpecOptions) *)

AllOff == CompilationOptions(FALSE, FALSE, FALSE, FALSE)

\* two calls in a row with the same format_output and add_comments
SameVisibleOptions ==
    /\ opt_result # NoResult
    /\ opt_result' # NoResult
    /\ options'.format_output = options.format_output
    /\ options'.add_comments = options.add_comments

\* with all four options off the call has returned what compile_with_details
\* has returned for the same source
AllOffIsDetails ==
    (opt_result # NoResult /\ options = AllOff /\ returned # NoResult) => opt_result = returned

C18_WitnessAllOff ==
    /\ opt_result # NoResult
    /\ opt_result.ok
    /\ options = AllOff
    /\ returned # NoResult
    /\ returned.ok
    /\ Len(opt_result.value.warnings) = 1

\* formatting alone: the lines of the nested program stand at the depth of
\* their braces
C18_WitnessFormatted ==
    /\ opt_result # NoResult
    /\ opt_result.ok
    /\ options = CompilationOptions(TRUE, FALSE, FALSE, TRUE)
    /\ Len(lines(opt_result.value.js_code)) = 9
    /\ lines(opt_result.value.js_code)[5]
        = <<" ", " ", " ", " ", " ", " ", " ", " ",
            "c", "o", "n", "s", "o", "l", "e", ".", "l", "o", "g", "(", "x", ")", ";">>
    /\ lines(opt_result.value.js_code)[6] = <<" ", " ", " ", " ", "}", " ", "e", "l", "s", "e", " ", "{">>
    /\ lines(opt_result.value.js_code)[9] = <<"}">>

\* comments alone on the text of indented lines around a blank one: the
\* comment lines carry the numbers 2 and 4
C18_WitnessCommented ==
    /\ opt_result # NoResult
    /\ opt_result.ok
    /\ options = CompilationOptions(FALSE, TRUE, TRUE, FALSE)
    /\ Len(lines(source.text)) = 4
    /\ SubSeq(lines(opt_result.value.js_code), 3, 5)
        = << <<"/", "/", " ", "2", ":", " ", "a", ";">>,
             <<"/", "/", " ", "4", ":", " ", "b", ";">>,
             << >> >>

-----------------------------------------------------------------------------
(* Claims about the For arm and the ordinals of validate_program (SpecValidate) *)

\* the loop has just validated a For whose init declares a name that the
\* enclosing scope did not hold
FreshInitFor ==
    /\ last_call # NoCall
    /\ last_call.stmt.type = "For"
    /\ last_call.stmt.init.type \in {"Const", "Let"}
    /\ last_call.stmt.init.name # << >>
    /\ last_call.stmt.init.name \notin last_call.before.declared_vars

\* C19: the init statement of a For is validated in the enclosing scope before
\* the body scope is cloned, and the condition and update are validated in
\* that enclosing scope after the init: a For whose init declares a name n
\* (not declared before) and whose condition, update and body refer to n (and
\* to nothing that is out of scope) validates without UndefinedVariable, and
\* once the init has validated n is a name of the enclosing scope, declared at
\* the ordinal of the For.
C19_ForInitScope ==
    FreshInitFor =>
        LET stmt == last_call.stmt
            n == stmt.init.name
            enclosing == last_call.before.declared_vars
        IN  /\ ~StmtHasUndefinedRef(stmt, enclosing)
                    => ~Failed(last_call.result, "UndefinedVariable")
            /\ Refs(stmt.init.expr) \subseteq enclosing \cup {n} =>
                    /\ n \in context.declared_vars
                    /\ context.var_declarations[n] = last_call.line
                    /\ context.var_types[n] = stmt.init.type
            /\ Failed(last_call.result, "UndefinedVariable") =>
                    last_call.result.err.name \notin enclosing \cup {n}
                        \/ n \in Refs(stmt.init.expr)

\* C19 witness: for (let x = 1; x < 1; x + 1) { print(x) } has validated in
\* an empty scope, and x is declared in the enclosing scope afterwards
C19_Witness ==
    /\ FreshInitFor
    /\ last_call.stmt = For(Let(X, N1), BinaryOp(IdX, Lt, N1), BinaryOp(IdX, Plus, N1),
                            <<PrintStmt(<<IdX>>)>>)
    /\ last_call.before.declared_vars = {}
    /\ last_call.result = Ok
    /\ context.declared_vars = {X}

\* the statement holds, at any depth, the construct the error is about
ErrorInside(err, stmt) ==
    LET all == Flatten(<<stmt>>)
    IN  CASE err.kind = "EmptyPrintStatement" ->
                \E k \in 1..Len(all) : all[k].type = "Print" /\ all[k].expressions = << >>
          [] err.kind = "EmptyBlock" ->
                \E k \in 1..Len(all) :
                    HasEmptyOwnBlock(all[k]) /\ err.stmt_type = EmptyBlockKeyword(all[k])
          [] err.kind = "EmptyIdentifier" ->
                \E k \in 1..Len(all) : all[k].type \in {"Const", "Let"} /\ all[k].name = << >>
          [] err.kind = "InvalidExpression" ->
                \E k \in 1..Len(all) :
                    \E e \in OwnExpressions(all[k]) : ~(Operators(e) \subseteq ValidOperators)
          [] err.kind = "UndefinedVariable" ->
                \E k \in 1..Len(all) : \E e \in OwnExpressions(all[k]) : err.name \in Refs(e)
          [] err.kind = "DuplicateVariable" ->
                \E k \in 1..Len(all) : all[k].type \in {"Const", "Let"} /\ all[k].name = err.name

\* the error stands at the ordinal of a top-level statement that holds its
\* construct (for a DuplicateVariable: a declaration of its name)
AtEnclosingOrdinal(err) ==
    /\ err.line \in 1..Len(statements)
    /\ ErrorInside(err, statements[err.line])

\* the statement holds the construct of the error inside a block, not at its own level
ErrorNested(err, stmt) ==
    /\ ErrorInside(err, stmt)
    /\ \E k \in 2..Len(Flatten(<<stmt>>)) : ErrorInside(err, Flatten(<<stmt>>)[k])
    /\ stmt.type \in {"If", "While"} \/ ~ErrorInside(err, stmt.init)

\* the loop has just got an error for a statement nested in a block of the
\* top-level statement it validated
NestedFailure ==
    /\ last_call # NoCall
    /\ ~last_call.result.ok
    /\ ErrorNested(last_call.result.err, last_call.stmt)

\* the statements are taken left to right, the k-th with the ordinal k
LeftToRight ==
    last_call # NoCall =>
        /\ last_call.line \in 1..Len(statements)
        /\ last_call.stmt = statements[last_call.line]
        /\ last_call.line \in {index, index + 1}
        /\ (fn = "validate_program" /\ last_call.result.ok) => last_call.line = index

\* C20, as stated: top-level statements are validated left to right with
\* 1-based ordinals (index + 1), and every validation error reported for a
\* statement nested at any depth inside a block carries the ordinal of its
\* enclosing top-level statement.
C20_AsStated ==
    /\ LeftToRight
    /\ NestedFailure => last_call.result.err.line = last_call.line

\* C20, amended: top-level statements are validated left to right with
\* 1-based ordinals (index + 1); every validation error other than
\* DuplicateVariable, also one reported for a statement nested at any depth
\* inside a block, carries the ordinal of the top-level statement being
\* validated, which holds the failing construct; a DuplicateVariable carries
\* the ordinal recorded for the earlier declaration of the name, which is the
\* ordinal of the top-level statement that holds that declaration and is never
\* greater than that of the statement being validated.
C20_EnclosingOrdinal ==
    /\ LeftToRight
    /\ (last_call # NoCall /\ ~last_call.result.ok) =>
            LET err == last_call.result.err
            IN  /\ ErrorInside(err, last_call.stmt)
                /\ AtEnclosingOrdinal(err)
                /\ IF err.kind = "DuplicateVariable"
                   THEN /\ err.line <= last_call.line
                        /\ \/ err.line = last_call.line
                           \/ /\ err.name \in last_call.before.declared_vars
                              /\ err.line = last_call.before.var_declarations[err.name]
                   ELSE err.line = last_call.line
    /\ (vp_result # NoResult /\ ~vp_result.ok) =>
            /\ AtEnclosingOrdinal(vp_result.err)
            /\ vp_result.err.kind # "DuplicateVariable" =>
                    \A k \in 1..(vp_result.err.line - 1) : DefectCount(<<statements[k]>>) = 0
            /\ (fn = "idle" /\ vpd_result = NoResult) =>
                    (last_call # NoCall /\ vp_result = last_call.result
                        /\ last_call.line = index + 1)
    /\ \A k \in 1..Len(errors) :
            /\ AtEnclosingOrdinal(errors[k])
            /\ fn = "validate_program_detailed" => errors[k].line <= index
            /\ \A j \in 1..(k - 1) :
                    (errors[j].kind # "DuplicateVariable" /\ errors[k].kind # "DuplicateVariable")
                        => errors[j].line < errors[k].line

\* C20 witness: the print of no argument two blocks deep in the second
\* statement is reported with the ordinal 2
C20_Witness ==
    /\ Len(statements) = 2
    /\ statements[2] = While(N1, <<If(N1, <<Let(Y, N1)>>, Some(<<PrintStmt(<< >>)>>))>>)
    /\ vp_result = Err(EmptyPrintStatement(2))
    /\ ErrorNested(vp_result.err, statements[2])

\* the detailed validation reports nested failures of both statements with
\* the ordinals 1 and 2
C20_WitnessDetailed ==
    /\ Len(errors) = 2
    /\ errors[1].line = 1 /\ ErrorNested(errors[1], statements[1])
    /\ errors[2].line = 2 /\ ErrorNested(errors[2], statements[2])

\* the let of x nested in the loop of statement 2 is reported as a duplicate
\* with the ordinal 1, where x was declared
C20_WitnessDuplicate ==
    /\ statements = <<Let(X, N1),
                      While(BinaryOp(IdX, Lt, N1),
                            <<PrintStmt(<<IdX>>), Let(X, BinaryOp(IdX, Plus, N1))>>)>>
    /\ vp_result = Err(DuplicateVariable(X, 1))
    /\ NestedFailure

-----------------------------------------------------------------------------
(* Claims about the errors and the frame of declare_variable (SpecContext) *)

\* call i is the last successful declaration of the name of call j before j
CurrentBinding(i, j) ==
    /\ i < j
    /\ calls[i].name = calls[j].name
    /\ calls[i].result.ok
    /\ \A k \in (i + 1)..(j - 1) : ~(calls[k].name = calls[j].name /\ calls[k].result.ok)

\* C21: a DuplicateVariable error carries the redeclared name and the ordinal
\* recorded for the name's current binding (that of its original declaration,
\* or of the let that last widened it), not the ordinal of the rejected
\* redeclaration.
C21_DuplicateCarriesRecordedOrdinal ==
    \A j \in 1..Len(calls) :
        IsDuplicate(calls[j].result) =>
            /\ calls[j].result.err.name = calls[j].name
            /\ \E i \in 1..(j - 1) :
                    CurrentBinding(i, j) /\ calls[j].result.err.line = calls[i].line

\* C21 witness: x declared Const at 1 and again Const at 2 yields
\* DuplicateVariable(x, 1)
C21_Witness ==
    /\ Len(calls) = 2
    /\ calls[1] = [name |-> X, line |-> 1, decl_type |-> "Const", result |-> Ok]
    /\ calls[2] = [name |-> X, line |-> 2, decl_type |-> "Const",
                   result |-> Err(DuplicateVariable(X, 1))]

\* x declared Const at 1, widened by a Let at 2, and a Let at 1 rejected with
\* the ordinal of the widening
C21_WitnessWidened ==
    /\ Len(calls) = 3
    /\ calls[1] = [name |-> X, line |-> 1, decl_type |-> "Const", result |-> Ok]
    /\ calls[2] = [name |-> X, line |-> 2, decl_type |-> "Let", result |-> Ok]
    /\ calls[3] = [name |-> X, line |-> 1, decl_type |-> "Let",
                   result |-> Err(DuplicateVariable(X, 2))]

\* C23: when declare_variable returns DuplicateVariable the ValidationContext
\* is unchanged: the set of declared names and the recorded kind and
\* declaration ordinal of every name are the same as before the call.
C23_DuplicateLeavesContext ==
    (last_call # NoCall /\ IsDuplicate(last_call.result)) =>
        /\ context.declared_vars = last_call.before.declared_vars
        /\ DOMAIN context.var_types = DOMAIN last_call.before.var_types
        /\ DOMAIN context.var_declarations = DOMAIN last_call.before.var_declarations
        /\ \A n \in context.declared_vars :
                /\ context.var_types[n] = last_call.before.var_types[n]
                /\ context.var_declarations[n] = last_call.before.var_declarations[n]

\* C23 witness: x is a Let of ordinal 1 and a Let of x at ordinal 2 is
\* rejected; the context still records ordinal 1 for x
C23_Witness ==
    /\ Len(calls) = 2
    /\ last_call # NoCall
    /\ last_call.name = X /\ last_call.line = 2 /\ last_call.decl_type = "Let"
    /\ IsDuplicate(last_call.result)
    /\ context.var_declarations[X] = 1
    /\ context.var_types[X] = "Let"

\* a rejected Const over a Const, with another name declared
C23_WitnessTwoNames ==
    /\ Len(calls) = 3
    /\ last_call # NoCall
    /\ last_call.name = X /\ last_call.line = 2 /\ last_call.decl_type = "Const"
    /\ IsDuplicate(last_call.result)
    /\ context.declared_vars = {X, Y}
    /\ context.var_declarations[X] = 1
    /\ context.var_types[X] = "Const"

\* the kinds of the successful declarations of a name, in call order
RECURSIVE SuccessfulKinds(_, _)
SuccessfulKinds(history, name) ==
    IF history = << >> THEN << >>
    ELSE (IF Head(history).name = name /\ Head(history).result.ok
          THEN <<Head(history).decl_type>> ELSE << >>)
            \o SuccessfulKinds(Tail(history), name)

\* C26: after any sequence of declare_variable calls on one ValidationContext,
\* each name has at most two successful declarations, of the kinds Const, or
\* Let, or Const then Let; once a name is Let-bound every further declaration
\* of it returns DuplicateVariable; a declared name never becomes undeclared.
C26_DeclarationHistory ==
    \A n \in Names :
        /\ Len(SuccessfulKinds(calls, n)) <= 2
        /\ SuccessfulKinds(calls, n) \in { << >>, <<"Const">>, <<"Let">>, <<"Const", "Let">> }
        /\ \A i, j \in 1..Len(calls) :
                (i < j /\ calls[i].name = n /\ calls[j].name = n
                    /\ calls[i].result.ok /\ calls[i].decl_type = "Let")
                        => IsDuplicate(calls[j].result)
        /\ SuccessfulKinds(calls, n) # << >> <=> n \in context.declared_vars
        /\ n \in context.declared_vars =>
                context.var_types[n] = SuccessfulKinds(calls, n)[Len(SuccessfulKinds(calls, n))]

\* C26 witness: x is declared Const, widened by a Let, and then neither a Let
\* nor anything else is accepted: the third call, a Let, is rejected
C26_Witness ==
    /\ Len(calls) = 3
    /\ SuccessfulKinds(calls, X) = <<"Const", "Let">>
    /\ calls[3].name = X /\ calls[3].decl_type = "Let" /\ IsDuplicate(calls[3].result)
    /\ X \in context.declared_vars

\* x is declared Let and both a Const and a Let of it are rejected
C26_WitnessLetBound ==
    /\ Len(calls) = 3
    /\ SuccessfulKinds(calls, X) = <<"Let">>
    /\ calls[2].name = X /\ calls[2].decl_type = "Const" /\ IsDuplicate(calls[2].result)
    /\ calls[3].name = X /\ calls[3].decl_type = "Let" /\ IsDuplicate(calls[3].result)

\* x stays a Const over a rejected Const, beside a Let of y
C26_WitnessConst ==
    /\ Len(calls) = 3
    /\ SuccessfulKinds(calls, X) = <<"Const">>
    /\ SuccessfulKinds(calls, Y) = <<"Let">>
    /\ \E i \in 1..3 : calls[i].name = X /\ IsDuplicate(calls[i].result)

-----------------------------------------------------------------------------
(* Claims about validate_expression (SpecExpression) *)

\* The ten operators of the language, spelled out
TenOperators ==
    { <<"+">>, <<"-">>, <<"*">>, <<"/">>, <<">">>, <<"<">>,
      <<">", "=">>, <<"<", "=">>, <<"=", "=">>, <<"!", "=">> }

\* the expression is well formed over the declared names: every identifier is
\* declared and every operator is one of the ten
RECURSIVE WellFormed(_, _)
WellFormed(e, declared) ==
    CASE e.type \in {"Number", "String"} -> TRUE
      [] e.type = "Identifier" -> e.name \in declared
      [] e.type = "BinaryOp" ->
            /\ WellFormed(e.left, declared)
            /\ WellFormed(e.right, declared)
            /\ e.op \in TenOperators

UnknownOperatorText == "Unknown operator: "

ExpressionValidated == last_call # NoCall /\ "expr" \in DOMAIN last_call

\* C22 as stated: every BinaryOp whose operator is none of the ten is rejected
\* with InvalidExpression ("Unknown operator").
C22_AsStated ==
    (ExpressionValidated /\ last_call.expr.type = "BinaryOp"
        /\ last_call.expr.op \notin TenOperators) =>
            /\ ~last_call.result.ok
            /\ last_call.result.err.kind = "InvalidExpression"

\* C22, amended: validate_expression accepts a BinaryOp exactly when both
\* operands validate and the operator is one of + - * / > < >= <= == !=; a
\* BinaryOp with any other operator string is rejected, with InvalidExpression
\* ("Unknown operator: " and the operator, at the line of the call) when both
\* operands validate and with the error of its first failing operand
\* otherwise; Number and String literals are always valid.
C22_OperatorsAndOperands ==
    ExpressionValidated =>
        LET e == last_call.expr
            declared == last_call.before.declared_vars
            result == last_call.result
        IN  /\ e.type \in {"Number", "String"} => result = Ok
            /\ result.ok <=> WellFormed(e, declared)
            /\ e.type = "BinaryOp" =>
                    /\ result.ok <=> /\ validate_expression(e.left, last_call.line, last_call.before).ok
                                     /\ validate_expression(e.right, last_call.line, last_call.before).ok
                                     /\ e.op \in TenOperators
                    /\ e.op \notin TenOperators =>
                            /\ ~result.ok
                            /\ (WellFormed(e.left, declared) /\ WellFormed(e.right, declared)) =>
                                    result.err = [kind |-> "InvalidExpression", line |-> last_call.line,
                                                  msg |-> <<UnknownOperatorText, e.op>>]
                            /\ ~WellFormed(e.left, declared) =>
                                    result = validate_expression(e.left, last_call.line, last_call.before)
                            /\ (WellFormed(e.left, declared) /\ ~WellFormed(e.right, declared)) =>
                                    result = validate_expression(e.right, last_call.line, last_call.before)

\* C22 witness: 1 & 1 is rejected with InvalidExpression where x is declared
C22_Witness ==
    /\ ExpressionValidated
    /\ last_call.expr = BinaryOp(N1, Amp, N1)
    /\ X \in last_call.before.declared_vars
    /\ ~last_call.result.ok
    /\ last_call.result.err.kind = "InvalidExpression"

\* x != (1 >= x) is accepted where x is declared
C22_WitnessAccepted ==
    /\ ExpressionValidated
    /\ last_call.expr = BinaryOp(BinaryOp(IdX, Lt, N1), <<"!", "=">>, BinaryOp(N1, <<">", "=">>, IdX))
    /\ last_call.result = Ok

\* x & 1 is rejected with UndefinedVariable where x is not declared
C22_WitnessOperandFirst ==
    /\ ExpressionValidated
    /\ last_call.expr = BinaryOp(IdX, Amp, N1)
    /\ last_call.result = Err(UndefinedVariable(X, last_call.line))

-----------------------------------------------------------------------------
(* Claims about the Lexer (SpecLexer) *)

TestTokens == <<TokenConst, TokenIdentifierX, TokenAssign, TokenNumber42>>

LexerCalled(method) == lexer_call # NoCall /\ lexer_call.method = method

\* C24: for any sequence of advance, reset, current, peek and is_eof calls on
\* a Lexer, 0 <= position <= number of tokens; advance increases position by
\* one while it is below the token count and is a no-op once it equals it;
\* is_eof is true exactly when position equals the token count, and then
\* current returns None; current, peek and is_eof change neither position nor
\* the token list; peek returns the token at position + 1; reset sets position
\* to 0 and keeps the tokens.
C24_LexerPosition ==
    /\ 0 <= lexer.position
    /\ lexer.position <= Len(lexer.tokens)
    /\ lexer_call # NoCall =>
        LET before == lexer_call.before
            count == Len(lexer_call.before.tokens)
        IN  /\ lexer.tokens = before.tokens
            /\ LexerCalled("advance") =>
                    /\ before.position < count => lexer.position = before.position + 1
                    /\ before.position = count => lexer.position = before.position
            /\ LexerCalled("is_eof") =>
                    /\ lexer_call.result <=> (before.position = count)
                    /\ lexer.position = before.position
            /\ LexerCalled("current") =>
                    /\ before.position = count => lexer_call.result = None
                    /\ before.position < count =>
                            lexer_call.result = Some(before.tokens[before.position + 1])
                    /\ lexer.position = before.position
            /\ LexerCalled("peek") =>
                    /\ before.position + 1 < count =>
                            lexer_call.result = Some(before.tokens[before.position + 2])
                    /\ before.position + 1 >= count => lexer_call.result = None
                    /\ lexer.position = before.position
            /\ LexerCalled("reset") => lexer.position = 0

\* C24 witness: on the tokens of `rrr x = 42`, advance called at the end of the
\* tokens leaves the position at 4
C24_Witness ==
    /\ lexer.tokens = TestTokens
    /\ LexerCalled("advance")
    /\ lexer_call.before.position = 4
    /\ lexer.position = 4
    /\ lexer_call.result = None

\* advance from the first token to the second
C24_WitnessAdvance ==
    /\ lexer.tokens = TestTokens
    /\ LexerCalled("advance")
    /\ lexer_call.before.position = 0
    /\ lexer.position = 1
    /\ lexer_call.result = Some(TokenIdentifierX)

\* is_eof at the end and current after it
C24_WitnessEof ==
    /\ lexer.tokens = TestTokens
    /\ lexer.position = 4
    /\ LexerCalled("is_eof")
    /\ lexer_call.result = TRUE

C24_WitnessCurrentAtEof ==
    /\ lexer.tokens = TestTokens
    /\ lexer.position = 4
    /\ LexerCalled("current")
    /\ lexer_call.result = None

\* peek at the start, as in test_lexer_methods
C24_WitnessPeek ==
    /\ lexer.tokens = TestTokens
    /\ lexer.position = 0
    /\ LexerCalled("peek")
    /\ lexer_call.result = Some(TokenIdentifierX)

\* reset from the end
C24_WitnessReset ==
    /\ lexer.tokens = TestTokens
    /\ LexerCalled("reset")
    /\ lexer_call.before.position = 4
    /\ lexer.position = 0

-----------------------------------------------------------------------------
(* Claims about the statement counts (SpecDetailsAndStats) *)

\* the statement pairs the grammar found at the top level of the source
TopLevelPairs ==
    IF ~source.matched THEN 0
    ELSE Cardinality({k \in 1..Len(source.program.inner) :
                            source.program.inner[k].rule = "statement"})

\* the sum of the per-kind counters
KindSum(counted) ==
    counted.print_statements + counted.const_declarations + counted.let_declarations
        + counted.if_statements + counted.while_loops + counted.for_loops

\* the statements held by the blocks of stmts, at any depth
NestedInBlocks(stmts) == Len(FlattenBlocks(stmts)) - Len(stmts)

\* C25: CompilationResult.statement_count and CompilationStats.total_statements
\* both equal the number of top-level statements of the parsed program, nested
\* statements not included; so the per-kind counters sum to at least
\* total_statements and exceed it when blocks contain statements.
C25_TopLevelCount ==
    /\ (returned # NoResult /\ returned.ok) =>
            /\ returned.value.statement_count = TopLevelPairs
            /\ returned.value.statement_count = Len(parse_program(source).value)
    /\ StatsReturnedOk =>
            /\ stats.value.total_statements = TopLevelPairs
            /\ stats.value.total_statements = Len(parse_program(source).value)
            /\ KindSum(stats.value) >= stats.value.total_statements
            /\ NestedInBlocks(parse_program(source).value) > 0 =>
                    KindSum(stats.value) > stats.value.total_statements

\* C25 witness: two conditionals with two statements each in their blocks are
\* compiled and counted: statement_count 2, total 2, counters summing to 6
C25_Witness ==
    /\ Len(ast) = 2
    /\ returned # NoResult /\ returned.ok
    /\ returned.value.statement_count = 2
    /\ StatsReturnedOk
    /\ stats.value.total_statements = 2
    /\ KindSum(stats.value) = 6

\* a program that is counted but does not validate: a let of x and a loop
\* whose body declares x again give a total of 2 and counters summing to 4
C25_WitnessCountedOnly ==
    /\ parse_program(source) = OkV(RedeclaredInLoop)
    /\ returned # NoResult /\ ~returned.ok
    /\ StatsReturnedOk
    /\ stats.value.total_statements = 2
    /\ KindSum(stats.value) = 4

-----------------------------------------------------------------------------
(* Claims about declarations and the two validation loops (SpecValidate) *)

\* the statement is a For whose init declares a name
IsDeclaringFor(stmt) ==
    stmt.type = "For" /\ stmt.init.type \in {"Const", "Let"} /\ stmt.init.name # << >>

\* the first statement is a For whose init declares a name and that validates,
\* and the validation loop has just validated the second statement
AfterValidatedFor ==
    /\ last_call # NoCall
    /\ last_call.line = 2
    /\ IsDeclaringFor(statements[1])
    /\ validate_statement(statements[1], 1, NewContext).result.ok

\* the name the statement declares in its own scope, if any: that of a
\* declaration, or of the init of a For
DeclaredBy(stmt) ==
    IF stmt.type \in {"Const", "Let"} THEN Some([name |-> stmt.name, kind |-> stmt.type])
    ELSE IF IsDeclaringFor(stmt) THEN Some([name |-> stmt.init.name, kind |-> stmt.init.type])
    ELSE None

\* C27: the declaration made by a For's init is registered in the enclosing
\* scope and stays there after the loop: a statement following the loop in the
\* same scope may refer to the loop variable without UndefinedVariable, and a
\* later declaration of the same name in that scope (the init of a second For
\* among them) fails with DuplicateVariable unless it is a let over a const.
C27_ForInitOutlivesLoop ==
    AfterValidatedFor =>
        LET loop == statements[1].init
            next == DeclaredBy(last_call.stmt)
        IN  /\ loop.name \in last_call.before.declared_vars
            /\ last_call.before.var_types[loop.name] = loop.type
            /\ last_call.before.var_declarations[loop.name] = 1
            /\ last_call.result # Err(UndefinedVariable(loop.name, 2))
            /\ (next # None /\ next[1].name = loop.name) =>
                    IF loop.type = "Const" /\ next[1].kind = "Let"
                    THEN /\ ~IsDuplicate(last_call.result)
                         /\ context.var_types[loop.name] = "Let"
                         /\ context.var_declarations[loop.name] = 2
                    ELSE last_call.result = Err(DuplicateVariable(loop.name, 1))

\* C27 witness: a second For with the same loop variable and the same kind is
\* rejected with DuplicateVariable(x, 1)
C27_Witness ==
    /\ AfterValidatedFor
    /\ statements[1] = For(Let(X, N1), BinaryOp(IdX, Lt, N1), BinaryOp(IdX, Plus, N1),
                           <<PrintStmt(<<IdX>>)>>)
    /\ statements[2] = statements[1]
    /\ vp_result = Err(DuplicateVariable(X, 1))

\* a print after the loop refers to the loop variable
C27_WitnessReference ==
    /\ AfterValidatedFor
    /\ statements[2] = PrintStmt(<<IdX>>)
    /\ last_call.result = Ok
    /\ vp_result = Ok

\* a For with a let init after a For with a const init of the same name
C27_WitnessLetOverConst ==
    /\ AfterValidatedFor
    /\ statements[1].init = Const(X, N1)
    /\ IsDeclaringFor(statements[2])
    /\ statements[2].init = Let(X, N1)
    /\ last_call.result = Ok

\* the last statement validated is a declaration whose name declare_variable
\* took: it is not empty and is not a rejected redeclaration
DeclarationTaken ==
    /\ last_call # NoCall
    /\ last_call.stmt.type \in {"Const", "Let"}
    /\ last_call.stmt.name # << >>
    /\ ~IsDuplicate(last_call.result)

\* statement 1 is a declaration whose initializer fails, and the loop of
\* validate_program_detailed has gone on to statement 2
AfterFailedInitializer ==
    /\ last_call # NoCall
    /\ last_call.line = 2
    /\ statements[1].type \in {"Const", "Let"}
    /\ statements[1].name # << >>
    /\ ~validate_statement(statements[1], 1, NewContext).result.ok

\* C28: a Const or Let registers its name in the current scope before its
\* initializer is validated: an initializer that refers to the very name being
\* declared is accepted (rrr x = x validates with no earlier x), and when the
\* initializer fails the name remains declared for the statements that
\* validate_program_detailed checks afterwards.
C28_NameBeforeInitializer ==
    /\ DeclarationTaken =>
          LET decl == last_call.stmt
          IN  /\ decl.name \in context.declared_vars
              /\ context.var_types[decl.name] = decl.type
              /\ context.var_declarations[decl.name] = last_call.line
              /\ last_call.result # Err(UndefinedVariable(decl.name, last_call.line))
              /\ decl.expr = Identifier(decl.name) => last_call.result = Ok
    /\ AfterFailedInitializer =>
          LET decl == statements[1]
          IN  /\ errors # << >>
              /\ errors[1] = validate_statement(decl, 1, NewContext).result.err
              /\ decl.name \in last_call.before.declared_vars
              /\ last_call.before.var_types[decl.name] = decl.type
              /\ last_call.before.var_declarations[decl.name] = 1
              /\ last_call.result # Err(UndefinedVariable(decl.name, 2))
              /\ last_call.stmt = PrintStmt(<<Identifier(decl.name)>>) => last_call.result = Ok

\* C28 witness: rrr x = x is the first statement of a program and validates
C28_Witness ==
    /\ DeclarationTaken
    /\ last_call.stmt = Const(X, IdX)
    /\ last_call.line = 1
    /\ last_call.before = NewContext
    /\ last_call.result = Ok

\* pushpa x = y fails on y, and validate_program_detailed accepts the print of
\* x that follows and returns the one error
C28_WitnessAfterFailure ==
    /\ AfterFailedInitializer
    /\ statements = <<Let(X, IdY), PrintStmt(<<IdX>>)>>
    /\ last_call.result = Ok
    /\ vpd_result = [ok |-> FALSE, errs |-> <<UndefinedVariable(Y, 1)>>]

\* pushpa x = y fails on y, and a second declaration of x is a redeclaration
C28_WitnessRedeclaredAfterFailure ==
    /\ AfterFailedInitializer
    /\ statements = <<Let(X, IdY), Let(X, N1)>>
    /\ last_call.result = Err(DuplicateVariable(X, 1))

\* the initializer fails and the name is in the context all the same
C28_WitnessFailedInitializer ==
    /\ DeclarationTaken
    /\ last_call.stmt = Let(X, IdY)
    /\ last_call.result = Err(UndefinedVariable(Y, 1))
    /\ X \in context.declared_vars

\* validate_program and validate_program_detailed have both returned for the
\* program
BothValidated == vp_result # NoResult /\ vpd_result # NoResult

\* C29: validate_program and validate_program_detailed agree on every program:
\* one returns Ok exactly when the other does, and when they fail the error
\* returned by validate_program is the first element of the list returned by
\* validate_program_detailed.
C29_ValidatorsAgree ==
    BothValidated =>
        /\ vp_result.ok <=> vpd_result.ok
        /\ ~vp_result.ok => /\ vpd_result.errs # << >>
                            /\ vp_result.err = vpd_result.errs[1]

\* C29 witness: both reject a program with two failing statements, the detailed
\* list holding both errors and validate_program returning the first
C29_Witness ==
    /\ BothValidated
    /\ statements = <<Let(X, IdY), Const(<< >>, N1)>>
    /\ vp_result = Err(UndefinedVariable(Y, 1))
    /\ vpd_result = [ok |-> FALSE, errs |-> <<UndefinedVariable(Y, 1), EmptyIdentifier(2, "rrr")>>]

\* both accept a program of two statements
C29_WitnessAccepted ==
    /\ BothValidated
    /\ Len(statements) = 2
    /\ vp_result = Ok
    /\ vpd_result = Ok

\* the only failing statement is the second one
C29_WitnessSecondFails ==
    /\ BothValidated
    /\ statements = <<Let(X, N1), Let(X, N1)>>
    /\ vp_result = Err(DuplicateVariable(X, 1))
    /\ vpd_result = [ok |-> FALSE, errs |-> <<DuplicateVariable(X, 1)>>]

-----------------------------------------------------------------------------
(* Claims about the lowering of empty prints (SpecCompile) *)

\* a print_statement with no expression occurs in the pair tree, at any depth
RECURSIVE PairHasEmptyPrint(_)
PairHasEmptyPrint(pair) ==
    \/ /\ pair.rule = "print_statement"
       /\ \A k \in 1..Len(pair.inner) : pair.inner[k].rule # "expression"
    \/ \E k \in 1..Len(pair.inner) : PairHasEmptyPrint(pair.inner[k])

\* the grammar matched the source and its tree holds an empty print
SourceHasEmptyPrint == source.matched /\ PairHasEmptyPrint(source.program)

\* the error whose text ends the message of a ValidationError
ValidationCause(e) == e.message[Len(e.message)]

\* C30: parse_program never returns a program that holds a Print of no
\* argument, at any nesting depth: lowering a print with no expression is a
\* parse error. Compiling a source with an empty print fails at the parse stage
\* (CompilationError::General, "Failed to parse TFI code"), and the validator's
\* EmptyPrintStatement is never produced through compile.
C30_NoEmptyPrintParsed ==
    /\ ~BlockHasEmptyPrint(ast)
    /\ (SourceHasEmptyPrint /\ pc # "parse") =>
            /\ pc = "done"
            /\ stages = <<"parse">>
            /\ ast = << >>
            /\ js_code = None
            /\ ~returned.ok
            /\ IsParseFailure(returned.err)
    /\ (returned # NoResult /\ ~returned.ok /\ returned.err.variant = "ValidationError") =>
            ValidationCause(returned.err).kind # "EmptyPrintStatement"

\* C30 witness: the source bahubali(); is matched, its lowering fails and compile
\* returns the General error of the parse stage
C30_Witness ==
    /\ source = Matched(ProgramPair(<<PrintStmt(<< >>)>>))
    /\ SourceHasEmptyPrint
    /\ stages = <<"parse">>
    /\ returned # NoResult
    /\ ~returned.ok
    /\ IsParseFailure(returned.err)
    /\ returned.err.message =
          FailedToParse \o Display(CustomError("bahubali() requires at least one argument").err)

\* the empty print is in the else-block of an if in a loop body, after a
\* statement that lowers
C30_WitnessNested ==
    /\ source = Matched(ProgramPair(<<Let(X, N1),
                                      While(N1, <<If(N1, <<Let(Y, N1)>>,
                                                     Some(<<PrintStmt(<< >>)>>))>>)>>))
    /\ SourceHasEmptyPrint
    /\ returned # NoResult
    /\ ~returned.ok
    /\ IsParseFailure(returned.err)

\* a program of prints with arguments is lowered, and its validation error has
\* another cause
C30_WitnessParsed ==
    /\ ~SourceHasEmptyPrint
    /\ ast = <<PrintStmt(<<IdY>>), PrintStmt(<<IdX>>)>>
    /\ returned # NoResult
    /\ ~returned.ok
    /\ returned.err.variant = "ValidationError"
    /\ ValidationCause(returned.err) = UndefinedVariable(Y, 1)

\* the empty print is the init of a for
C30_WitnessForInit ==
    /\ source = Matched(ProgramPair(<<For(PrintStmt(<< >>), N1, N1, <<PrintStmt(<<N1>>)>>)>>))
    /\ SourceHasEmptyPrint
    /\ returned # NoResult
    /\ ~returned.ok
    /\ IsParseFailure(returned.err)

====
